---------------------------- MODULE Spec2Model ----------------------------
(***************************************************************************)
(* YarvixBrowser: the credential manager (CredentialManager) and the ad    *)
(* blocker (AdBlocker with the session's onBeforeRequest handler).         *)
(*                                                                         *)
(* Strings are TLA+ strings; a JavaScript index i (0-based) is the TLA+    *)
(* index i + 1.  "Spec" is the credential manager during one process       *)
(* lifetime, "SpecBlock" the ad blocker during one process lifetime.       *)
(*                                                                         *)
(* A record constructor lists its fields in the order in which their names *)
(* first occur in this module, which is the order TLC keeps them in.       *)
(***************************************************************************)
EXTENDS Integers, Sequences, FiniteSets, TLC

(***************************************************************************)
(* Bounds of the model.                                                    *)
(***************************************************************************)
\* Date.now() ranges over 0..MaxTime
MaxTime == 1
\* number of calls that rewrite the credentials file in one run
MaxOps == 2
\* number of requests the session cancels in one run
MaxBlocked == 3
\* number of reports of pages the window handles in one run
MaxReports == 3
\* number of tabs the window creates in one run
MaxTabs == 3
\* number of times the user submits the login form of the page in one run
MaxSubmits == 2
\* number of calls of the password protection in one run
MaxCalls == 5

(***************************************************************************)
(* String primitives of the JavaScript runtime.                            *)
(***************************************************************************)
LowerAlpha == "abcdefghijklmnopqrstuvwxyz"
UpperAlpha == "ABCDEFGHIJKLMNOPQRSTUVWXYZ"
Digits == "0123456789"

\* the least element of a set of positive indexes, 0 for the empty set
minOrZero(S) == IF S = {} THEN 0 ELSE CHOOSE i \in S : \A j \in S : i <= j

\* the greatest element of a set of positive indexes, 0 for the empty set
maxOrZero(S) == IF S = {} THEN 0 ELSE CHOOSE i \in S : \A j \in S : j <= i

\* String.prototype.indexOf(sub, from): the first index >= from, 0 when absent
indexOfFrom(s, sub, from) ==
  minOrZero({i \in from..(Len(s) - Len(sub) + 1) : SubSeq(s, i, i + Len(sub) - 1) = sub})

\* String.prototype.includes
includes(s, sub) ==
  \E i \in 1..(Len(s) - Len(sub) + 1) : SubSeq(s, i, i + Len(sub) - 1) = sub

startsWith(s, prefix) ==
  Len(prefix) <= Len(s) /\ SubSeq(s, 1, Len(prefix)) = prefix

LowerOf ==
  [c \in {SubSeq(UpperAlpha, i, i) : i \in 1..Len(UpperAlpha)} |->
      SubSeq(LowerAlpha, indexOfFrom(UpperAlpha, c, 1), indexOfFrom(UpperAlpha, c, 1))] @@ <<>>

RECURSIVE toLowerCase(_)
\* String.prototype.toLowerCase on the ASCII strings of the model: one character,
\* or the two halves of a longer string
toLowerCase(s) ==
  IF Len(s) = 0 THEN ""
  ELSE IF Len(s) = 1 THEN (IF s \in DOMAIN LowerOf THEN LowerOf[s] ELSE s)
  ELSE toLowerCase(SubSeq(s, 1, Len(s) \div 2))
       \o toLowerCase(SubSeq(s, (Len(s) \div 2) + 1, Len(s)))

\* whether the character c is one of the characters of alphabet
isOneOf(c, alphabet) == \E i \in 1..Len(alphabet) : SubSeq(alphabet, i, i) = c

allCharsIn(s, alphabet) == \A i \in 1..Len(s) : isOneOf(SubSeq(s, i, i), alphabet)

\* the first index >= from whose character is one of stops, Len(s) + 1 when none
firstOfAny(s, stops, from) ==
  minOrZero({i \in from..(Len(s) + 1) : i = Len(s) + 1 \/ isOneOf(SubSeq(s, i, i), stops)})

\* the last index <= from whose character is c, 0 when none
lastIndexOfChar(s, c, from) == maxOrZero({i \in 1..from : SubSeq(s, i, i) = c})

RECURSIVE numberToString(_)
\* Number.prototype.toString of a non-negative integer
numberToString(n) ==
  IF n < 10 THEN SubSeq(Digits, n + 1, n + 1)
  ELSE numberToString(n \div 10) \o SubSeq(Digits, (n % 10) + 1, (n % 10) + 1)

(***************************************************************************)
(* new URL(url): the parts of the WHATWG URL that the program reads        *)
(* (protocol, host, hostname).  ok = FALSE stands for the TypeError the    *)
(* constructor throws.                                                     *)
(***************************************************************************)
InvalidURL == [ok |-> FALSE, protocol |-> "", hostname |-> "", port |-> "", host |-> ""]

SpecialSchemes == {"http", "https", "ws", "wss", "ftp"}

DefaultPort(scheme) ==
  CASE scheme \in {"http", "ws"} -> "80"
    [] scheme \in {"https", "wss"} -> "443"
    [] scheme = "ftp" -> "21"
    [] OTHER -> ""

RECURSIVE skipSlashes(_, _)
skipSlashes(s, from) ==
  IF from <= Len(s) /\ SubSeq(s, from, from) \in {"/", "\\"}
  THEN skipSlashes(s, from + 1) ELSE from

\* the parsed URL of a scheme, a host name and a port, both normalised
URLRecord(scheme, hostname, port) ==
  IF (scheme \in SpecialSchemes /\ hostname = "") \/ includes(hostname, " ")
  THEN InvalidURL
  ELSE [ok |-> TRUE, protocol |-> scheme \o ":", hostname |-> hostname, port |-> port,
        host |-> IF port = "" THEN hostname ELSE hostname \o ":" \o port]

\* host names of special schemes are lower-cased, a default port is dropped
NormaliseHostPort(scheme, rawHost, rawPort) ==
  IF ~allCharsIn(rawPort, Digits) THEN InvalidURL
  ELSE URLRecord(scheme,
                 IF scheme \in SpecialSchemes THEN toLowerCase(rawHost) ELSE rawHost,
                 IF rawPort = DefaultPort(scheme) THEN "" ELSE rawPort)

SplitHostPort(scheme, hostport, colon) ==
  NormaliseHostPort(scheme,
                    IF colon = 0 THEN hostport ELSE SubSeq(hostport, 1, colon - 1),
                    IF colon = 0 THEN "" ELSE SubSeq(hostport, colon + 1, Len(hostport)))

\* the authority without its userinfo
ParseHostPort(scheme, hostport) ==
  SplitHostPort(scheme, hostport, lastIndexOfChar(hostport, ":", Len(hostport)))

ParseAuthority(scheme, auth) ==
  ParseHostPort(scheme, SubSeq(auth, lastIndexOfChar(auth, "@", Len(auth)) + 1, Len(auth)))

\* the authority starts at from and ends before the first of stops
ParseFrom(scheme, url, from, stops) ==
  ParseAuthority(scheme, SubSeq(url, from, firstOfAny(url, stops, from) - 1))

ParseAfterScheme(scheme, url, colon) ==
  IF ~isOneOf(SubSeq(scheme, 1, 1), LowerAlpha)
     \/ ~allCharsIn(scheme, LowerAlpha \o Digits \o "+-.")
  THEN InvalidURL
  ELSE IF scheme \in SpecialSchemes
  THEN ParseFrom(scheme, url, skipSlashes(url, colon + 1), "/\\?#")
  ELSE IF startsWith(SubSeq(url, colon + 1, Len(url)), "//")
  THEN ParseFrom(scheme, url, colon + 3, "/?#")
  ELSE [ok |-> TRUE, protocol |-> scheme \o ":", hostname |-> "", port |-> "", host |-> ""]

ParseFromColon(url, colon) ==
  IF colon <= 1 THEN InvalidURL
  ELSE ParseAfterScheme(toLowerCase(SubSeq(url, 1, colon - 1)), url, colon)

ParseURL(url) == ParseFromColon(url, indexOfFrom(url, ":", 1))

(***************************************************************************)
(* Inputs of the model.                                                    *)
(***************************************************************************)
\* page urls handed to the credential manager
Urls ==
  {"https://example.com/login", "HTTPS://Example.COM:443/account",
   "http://other.test:8080/", "not a url"}

\* the origins of stored credentials: what the window hands back as the url of
\* the item selected in the dropdown
OriginUrls == {"https://example.com", "http://other.test:8080"}

Usernames == {"alice", "bob"}
Passwords == {"p1", "p2"}
MasterPasswords == {"m1", "m2"}

\* urls of requests
RequestUrls ==
  {"https://doubleclick.net/ads/x.js",
   "https://news.example/article.js",
   "https://cdn.example/Banner-Ad/1.png",
   "https://www.youtube.com/get_ad_signals",
   "https://www.youtube.com/youtubei/v1/player?adformat=1"}

\* urls of the pages that issue the requests
PageUrls == {"https://news.example/", "https://www.youtube.com/watch?v=1"}

\* what the window sends on adblock-whitelist-add / adblock-whitelist-remove
Domains == {"news.example", "www.youtube.com"}

ResourceTypes == {"mainFrame", "script"}

\* details.webContentsId: <<id>>, or <<>> when the request belongs to no webContents
WebContentsIds == {<<1>>, <<>>}

\* the details of a request; `page` is the url of the page that issued it, which the
\* handler is not told: details.referrer is that url, or empty when the page's
\* referrer policy withholds it
FirstTabRequests ==
  {[url |-> u, resourceType |-> t, referrer |-> IF withheld THEN "" ELSE p,
    webContentsId |-> w, page |-> p] :
     u \in RequestUrls, t \in ResourceTypes, w \in WebContentsIds,
     p \in PageUrls, withheld \in BOOLEAN}

\* script requests of a page in a second tab
SecondTabRequests ==
  {[url |-> u, resourceType |-> "script", referrer |-> "https://news.example/",
    webContentsId |-> <<2>>, page |-> "https://news.example/"] :
     u \in {"https://doubleclick.net/ads/x.js", "https://news.example/article.js"}}

Requests == FirstTabRequests \cup SecondTabRequests

NoRequest ==
  [url |-> "", resourceType |-> "", referrer |-> "", webContentsId |-> <<>>, page |-> ""]

\* the value of a JavaScript null, and a file that does not exist
Null == "<null>"
NoFile == [exists |-> FALSE]

VARIABLES
  credentialsCache,   \* Map origin -> [record]: the entries in insertion order
  neverSaveSites,     \* Set of origins
  useOSStorage,       \* safeStorage.isEncryptionAvailable() at start
  credentialsFile,    \* contents of credentials.enc, or NoFile
  neverSaveFile,      \* contents of never-save-sites.json, or NoFile
  encryptionKeyFile,  \* contents of .credential-key, or NoFile
  now,                \* Date.now()
  faulty,             \* whether safeStorage and fs calls may throw in this run
  opCount,            \* mutating store calls so far
  lastCall,           \* the last call of the credential manager that wrote to the store
  enabled,            \* AdBlocker.enabled
  whitelist,          \* AdBlocker.whitelist: Set of strings
  stats,              \* AdBlocker.stats
  lastIndex,          \* lastIndex of every RegExp object with the g flag
  response,           \* what the last onBeforeRequest call answered and sent to the window
  localStorage,       \* the localStorage of the main process, if its runtime has one
  tabs,               \* the window's tabs: webContents ids of the open ones, tabCounter,
                      \* the ids in the order of the tab list, activeTabId
  credentialState,    \* the window's credentialState object
  dom,                \* the window: elements with class hidden, dropdown items, blur timers
                      \* (of each, whether the dropdown was clicked since it was started)
  toMain,             \* ipc messages from the window on their way to the main process
  toRenderer,         \* ipc messages from the main process on their way to the window
  received,           \* the last message the window has taken from toRenderer
  authPending,        \* re-authentication prompts the user has not answered yet
  fills,              \* the calls of window.__yarvixAutofill the window has run in pages
  reports,            \* reports of pages (console messages) the window has handled so far
  page,               \* a page with a login form: submissions so far, click timers, reports logged
  lock                \* the PasswordProtection object of the main process: config, the file
                      \* browser-lock.json, what the last call returned, the calls so far

storeVars ==
  <<credentialsCache, neverSaveSites, useOSStorage, credentialsFile, neverSaveFile,
    encryptionKeyFile, now, faulty, opCount, lastCall>>

blockVars == <<enabled, whitelist, stats, lastIndex, response, localStorage, tabs>>

uiVars ==
  <<credentialState, dom, toMain, toRenderer, received, authPending, fills, reports, page,
    lock>>

vars == <<storeVars, blockVars, uiVars>>

\* every url the model hands to new URL
AllUrls == Urls \cup OriginUrls \cup RequestUrls \cup PageUrls \cup {""}

ParsedUrls == [u \in AllUrls |-> ParseURL(u)] @@ <<>>

\* new URL(url), computed once for each url of the model
newURL(url) == ParsedUrls[url]

(***************************************************************************)
(* JavaScript Map, as the sequence of its entries in insertion order.      *)
(***************************************************************************)
MapHas(m, k) == \E i \in DOMAIN m : m[i].key = k
MapGet(m, k) == m[CHOOSE i \in DOMAIN m : m[i].key = k].value
MapSetAt(m, i, k, v) ==
  IF i = 0 THEN Append(m, [key |-> k, value |-> v])
  ELSE [m EXCEPT ![i] = [key |-> k, value |-> v]]
MapSet(m, k, v) ==
  MapSetAt(m, IF \E i \in DOMAIN m : m[i].key = k
              THEN CHOOSE i \in DOMAIN m : m[i].key = k ELSE 0, k, v)
MapDelete(m, k) == SelectSeq(m, LAMBDA e : e.key # k)
MapClear(m) == SelectSeq(m, LAMBDA e : FALSE)

\* Array.prototype.findIndex(c => c.username === username): 0 when absent
findIndexByUsername(credentials, username) ==
  IF \E i \in DOMAIN credentials : credentials[i].username = username
  THEN CHOOSE i \in DOMAIN credentials :
         /\ credentials[i].username = username
         /\ \A j \in 1..(i - 1) : credentials[j].username # username
  ELSE 0

\* Array.prototype.filter(c => c.username !== username)
filterOutUsername(credentials, username) ==
  SelectSeq(credentials, LAMBDA c : c.username # username)

(***************************************************************************)
(* CredentialManager: origin, encryption envelope, persistence.            *)
(***************************************************************************)
\* `${parsed.protocol}//${parsed.host}`, null when new URL threw
originOf(parsed) ==
  IF parsed.ok THEN parsed.protocol \o "//" \o parsed.host ELSE Null

_getOrigin(url) == originOf(newURL(url))

\* what a call of a throwing platform function may do in this run
Outcomes == IF faulty THEN {"ok", "throws"} ELSE {"ok"}

\* what crypto.randomBytes yields for an iv and for a key
Ivs == {"iv1"}
Keys == {"key1"}

\* JSON.stringify / JSON.parse of arrays and objects of strings and numbers
JSONstringify(value) == [json |-> value]
JSONparse(text) == text.json

\* the number a digit stands for
digitValue(c) == indexOfFrom(Digits, c, 1) - 1

RECURSIVE parseIndex(_)
\* the number a string of digits stands for
parseIndex(key) ==
  IF Len(key) = 0 THEN 0
  ELSE parseIndex(SubSeq(key, 1, Len(key) - 1)) * 10 + digitValue(SubSeq(key, Len(key), Len(key)))

\* whether a property key is an array index: an object lists such keys first, in
\* ascending order, and its other keys in the order in which they were set
isArrayIndex(key) ==
  /\ Len(key) > 0
  /\ allCharsIn(key, Digits)
  /\ Len(key) = 1 \/ SubSeq(key, 1, 1) # "0"

RECURSIVE indexEntriesInto(_, _)
\* the entries of rest whose key is an array index, placed into sorted in ascending order
indexEntriesInto(sorted, rest) ==
  IF rest = <<>> THEN sorted
  ELSE IF ~isArrayIndex(Head(rest).key) THEN indexEntriesInto(sorted, Tail(rest))
  ELSE indexEntriesInto(
         SubSeq(sorted, 1, Cardinality({i \in DOMAIN sorted :
                                         parseIndex(sorted[i].key) < parseIndex(Head(rest).key)}))
           \o <<Head(rest)>>
           \o SubSeq(sorted, Cardinality({i \in DOMAIN sorted :
                                           parseIndex(sorted[i].key) < parseIndex(Head(rest).key)}) + 1,
                     Len(sorted)),
         Tail(rest))

\* a variant that puts only the entry set last into the object
objectOfLastEntry(m) == SubSeq(m, Len(m), Len(m))

\* const credentials = {}; credentials[origin] = creds for the entries of the Map:
\* the object's properties in the order in which JSON.stringify writes them
objectFromEntries(m) ==
  indexEntriesInto(<<>>, m) \o SelectSeq(m, LAMBDA e : ~isArrayIndex(e.key))

RECURSIVE setEntries(_, _)
\* for (const [origin, creds] of Object.entries(credentials)) cache.set(origin, creds)
setEntries(m, entries) ==
  IF entries = <<>> THEN m
  ELSE setEntries(MapSet(m, Head(entries).key, Head(entries).value), Tail(entries))

\* _getEncryptionKey: [threw, key, keyFile]
_getEncryptionKey(keyFile, fresh, fsOutcome) ==
  IF fsOutcome = "throws" THEN [key |-> "", keyFile |-> keyFile, threw |-> TRUE]
  ELSE IF keyFile.exists THEN [key |-> keyFile.data, keyFile |-> keyFile, threw |-> FALSE]
  ELSE [key |-> fresh, keyFile |-> [exists |-> TRUE, data |-> fresh], threw |-> FALSE]

\* the AES-256-GCM branch of _encrypt under the key k
_encryptWithKey(plaintext, k, iv) ==
  IF k.threw THEN [keyFile |-> k.keyFile, threw |-> TRUE, data |-> NoFile]
  ELSE [keyFile |-> k.keyFile, threw |-> FALSE,
        data |-> [key |-> k.key, text |-> plaintext, iv |-> iv, mech |-> "aes-256-gcm"]]

\* _encrypt: [threw, data, keyFile]
_encrypt(plaintext, osOutcome, fsOutcome, fresh, iv) ==
  IF useOSStorage /\ osOutcome = "ok"
  THEN [keyFile |-> encryptionKeyFile, threw |-> FALSE,
        data |-> [key |-> "", text |-> plaintext, iv |-> "", mech |-> "safeStorage"]]
  ELSE _encryptWithKey(plaintext, _getEncryptionKey(encryptionKeyFile, fresh, fsOutcome), iv)

\* fs.writeFileSync of the encrypted blob e; every error is caught and logged
writeCredentialsFile(e, writeOutcome) ==
  /\ encryptionKeyFile' = e.keyFile
  /\ credentialsFile' =
       IF e.threw \/ writeOutcome = "throws" THEN credentialsFile
       ELSE [exists |-> TRUE, data |-> e.data]

\* whether the try block of _saveCredentials got past fs.writeFileSync
wroteFile(e, writeOutcome) == ~e.threw /\ writeOutcome = "ok"

\* _saveCredentials of the cache `cache` during the call `call`: the files
\* afterwards, and the call recorded with whether the file was written
_saveCredentials(cache, call) ==
  \E osOutcome \in Outcomes, keyOutcome \in Outcomes, writeOutcome \in Outcomes,
     fresh \in Keys, iv \in Ivs :
    /\ writeCredentialsFile(_encrypt(JSONstringify(objectFromEntries(cache)),
                                     osOutcome, keyOutcome, fresh, iv),
                            writeOutcome)
    /\ lastCall' = [call EXCEPT !.wrote =
                      wroteFile(_encrypt(JSONstringify(objectFromEntries(cache)),
                                         osOutcome, keyOutcome, fresh, iv),
                                writeOutcome)]

\* _saveNeverSaveSites
_saveNeverSaveSites(sites) ==
  \E writeOutcome \in Outcomes :
    neverSaveFile' =
      IF writeOutcome = "throws" THEN neverSaveFile
      ELSE [exists |-> TRUE, data |-> JSONstringify(sites)]

(***************************************************************************)
(* CredentialManager: the never-save list.                                 *)
(***************************************************************************)
\* a call that wrote to the store: its name, its arguments, what it returned, for
\* saveCredential what checkExistingCredential answered before it, and whether
\* the call wrote the credentials file
Call(op, url, username, password, result, found) ==
  [url |-> url, username |-> username, wrote |-> FALSE, op |-> op,
   password |-> password, result |-> result, found |-> found]

\* a call that returns early writes nothing
noChange(call) == UNCHANGED <<storeVars, blockVars>>

\* the state the never-save calls leave alone
neverSaveFrame ==
  UNCHANGED <<credentialsCache, useOSStorage, credentialsFile, encryptionKeyFile,
              now, faulty, opCount, blockVars>>

shouldPromptSaveInverted(url) == _getOrigin(url) \in neverSaveSites

shouldPromptSave(url) ==
  IF _getOrigin(url) = Null THEN FALSE ELSE _getOrigin(url) \notin neverSaveSites

\* a variant that also forgets what the site had saved
neverSaveOriginPurging(origin, call) ==
  IF origin = Null THEN noChange(call)
  ELSE /\ neverSaveSites' = neverSaveSites \cup {origin}
       /\ _saveNeverSaveSites(neverSaveSites')
       /\ lastCall' = call
       /\ credentialsCache' = SelectSeq(credentialsCache, LAMBDA e : e.key # origin)
       /\ UNCHANGED <<useOSStorage, credentialsFile, encryptionKeyFile,
                      now, faulty, opCount, blockVars>>

\* neverSaveForSite once the origin is known
neverSaveOrigin(origin, call) ==
  IF origin = Null THEN noChange(call)
  ELSE /\ neverSaveSites' = neverSaveSites \cup {origin}
       /\ _saveNeverSaveSites(neverSaveSites')
       /\ lastCall' = call
       /\ neverSaveFrame

neverSaveForSite(url) ==
  neverSaveOrigin(_getOrigin(url), Call("neverSaveForSite", url, "", "", TRUE, ""))

\* enableSaveForSite once the origin is known
enableSaveOrigin(origin, call) ==
  IF origin = Null THEN noChange(call)
  ELSE /\ neverSaveSites' = neverSaveSites \ {origin}
       /\ _saveNeverSaveSites(neverSaveSites')
       /\ lastCall' = call
       /\ neverSaveFrame

enableSaveForSite(url) ==
  enableSaveOrigin(_getOrigin(url), Call("enableSaveForSite", url, "", "", TRUE, ""))

getNeverSaveSites == neverSaveSites

(***************************************************************************)
(* CredentialManager: the credential records.                              *)
(***************************************************************************)
\* the state the calls on credential records leave alone
credentialsFrame ==
  UNCHANGED <<neverSaveSites, useOSStorage, neverSaveFile, now, faulty, blockVars>>

\* a mutating call that sets the cache to `cache` and saves it
storeCache(cache, call) ==
  /\ opCount < MaxOps
  /\ credentialsCache' = cache
  /\ _saveCredentials(cache, call)
  /\ opCount' = opCount + 1
  /\ credentialsFrame

\* this.credentialsCache.get(origin) || []
credentialsOrEmpty(cache, origin) ==
  IF \E i \in DOMAIN cache : cache[i].key = origin
  THEN cache[CHOOSE i \in DOMAIN cache : cache[i].key = origin].value
  ELSE <<>>

\* checkExistingCredential from the origin's array and the index of the username in it
existingStatus(credentials, i, password) ==
  IF credentials = <<>> THEN [status |-> "none", hasOtherUsers |-> FALSE]
  ELSE IF i = 0 THEN [status |-> "none", hasOtherUsers |-> TRUE]
  ELSE IF credentials[i].password = password THEN [status |-> "same", hasOtherUsers |-> FALSE]
  ELSE [status |-> "different", hasOtherUsers |-> FALSE]

checkExistingIn(credentials, username, password) ==
  existingStatus(credentials, findIndexByUsername(credentials, username), password)

\* a variant that does not compare the passwords
checkExistingNoCompare(url, username, password) ==
  IF checkExistingIn(credentialsOrEmpty(credentialsCache, _getOrigin(url)),
                     username, password).status = "none"
  THEN checkExistingIn(credentialsOrEmpty(credentialsCache, _getOrigin(url)),
                       username, password)
  ELSE [status |-> "same", hasOtherUsers |-> FALSE]

checkExistingCredential(url, username, password) ==
  IF _getOrigin(url) = Null THEN [status |-> "none", hasOtherUsers |-> FALSE]
  ELSE checkExistingIn(credentialsOrEmpty(credentialsCache, _getOrigin(url)),
                       username, password)

\* a variant that stamps every record it writes as new
credentialEntryFresh(credentials, existingIndex, username, password, time) ==
  [username |-> username, password |-> password, createdAt |-> time, updatedAt |-> time]

\* the record saveCredential writes: createdAt is kept when the record exists
credentialEntry(credentials, existingIndex, username, password, time) ==
  [username |-> username, password |-> password,
   createdAt |-> IF existingIndex > 0 THEN credentials[existingIndex].createdAt ELSE time,
   updatedAt |-> time]

\* the origin's array after saveCredential's insert-or-overwrite
savedAt(credentials, existingIndex, entry) ==
  IF existingIndex > 0
  THEN [credentials EXCEPT ![existingIndex] = entry]
  ELSE Append(credentials, entry)

\* a variant that pushes a record whether or not the username exists
savedCredentialsAppending(credentials, username, password, time) ==
  Append(credentials, [username |-> username, password |-> password,
                       createdAt |-> time, updatedAt |-> time])

\* a variant that leaves an existing record as it is
savedCredentialsKeeping(credentials, username, password, time) ==
  IF \E i \in DOMAIN credentials : credentials[i].username = username
  THEN credentials
  ELSE savedCredentialsAppending(credentials, username, password, time)

savedCredentials(credentials, username, password, time) ==
  savedAt(credentials, findIndexByUsername(credentials, username),
          credentialEntry(credentials, findIndexByUsername(credentials, username),
                          username, password, time))

saveCredentialAt(origin, username, password, call) ==
  IF origin = Null THEN noChange(call)
  ELSE storeCache(MapSet(credentialsCache, origin,
                         savedCredentials(credentialsOrEmpty(credentialsCache, origin),
                                          username, password, now)),
                  call)

\* the return value of saveCredential
saveCredentialResult(url, username, password) == _getOrigin(url) # Null

saveCredential(url, username, password) ==
  saveCredentialAt(_getOrigin(url), username, password,
                   Call("saveCredential", url, username, password,
                        saveCredentialResult(url, username, password),
                        checkExistingCredential(url, username, password).status))

\* name.substring(0, 2) + "***@" + domain of username.split('@')
maskParts(username, name, rest) ==
  IF Len(name) <= 2 THEN username
  ELSE SubSeq(name, 1, 2) \o "***@" \o SubSeq(rest, 1, firstOfAny(rest, "@", 1) - 1)

_maskUsername(username) ==
  IF includes(username, "@")
  THEN maskParts(username, SubSeq(username, 1, indexOfFrom(username, "@", 1) - 1),
                 SubSeq(username, indexOfFrom(username, "@", 1) + 1, Len(username)))
  ELSE IF Len(username) <= 3 THEN username
  ELSE SubSeq(username, 1, 3) \o "***"

\* credentials.map(c => ({username, password, origin, displayName}))
autofillRecords(credentials, origin) ==
  [i \in DOMAIN credentials |->
     [username |-> credentials[i].username,
      password |-> credentials[i].password,
      origin |-> origin,
      displayName |-> _maskUsername(credentials[i].username)]]

getCredentials(url) ==
  IF _getOrigin(url) = Null THEN <<>>
  ELSE autofillRecords(credentialsOrEmpty(credentialsCache, _getOrigin(url)), _getOrigin(url))

\* a variant that pushes the whole record
listEntryWhole(origin, cred) ==
  [username |-> cred.username,
   password |-> cred.password,
   origin |-> origin,
   createdAt |-> cred.createdAt,
   updatedAt |-> cred.updatedAt,
   displayName |-> _maskUsername(cred.username)]

\* the entry getAllCredentials pushes for the record cred of origin
listEntry(origin, cred) ==
  [username |-> cred.username,
   origin |-> origin,
   createdAt |-> cred.createdAt,
   updatedAt |-> cred.updatedAt,
   displayName |-> _maskUsername(cred.username)]

\* the entries getAllCredentials pushes for one origin
listEntries(origin, credentials) ==
  [i \in DOMAIN credentials |-> listEntry(origin, credentials[i])]

RECURSIVE listAll(_)
\* the loops of getAllCredentials over credentialsCache.entries()
listAll(cache) ==
  IF cache = <<>> THEN <<>>
  ELSE listEntries(Head(cache).key, Head(cache).value) \o listAll(Tail(cache))

\* e placed behind the k first entries of sorted
insertAt(sorted, k, e) ==
  SubSeq(sorted, 1, k) \o <<e>> \o SubSeq(sorted, k + 1, Len(sorted))

RECURSIVE sortedInto(_, _)
\* a variant that leaves the entries in the order of the loops
unsortedInto(sorted, rest) == sorted \o rest

\* result.sort((a, b) => b.updatedAt - a.updatedAt) as a stable sort: every entry
\* of rest goes behind the entries that are not older than it
sortedInto(sorted, rest) ==
  IF rest = <<>> THEN sorted
  ELSE sortedInto(
         insertAt(sorted,
                  Cardinality({i \in DOMAIN sorted : sorted[i].updatedAt >= Head(rest).updatedAt}),
                  Head(rest)),
         Tail(rest))

getAllCredentials == sortedInto(<<>>, listAll(credentialsCache))

\* the cache after deleteCredential found the origin's array
cacheWithout(cache, origin, newCredentials) ==
  IF newCredentials = <<>> THEN MapDelete(cache, origin)
  ELSE MapSet(cache, origin, newCredentials)

deleteCredentialAt(origin, username, call) ==
  IF origin = Null \/ ~MapHas(credentialsCache, origin) THEN noChange(call)
  ELSE storeCache(cacheWithout(credentialsCache, origin,
                               filterOutUsername(MapGet(credentialsCache, origin), username)),
                  call)

\* the return value of deleteCredential
deleteCredentialResult(url, username) ==
  _getOrigin(url) # Null /\ MapHas(credentialsCache, _getOrigin(url))

deleteCredential(url, username) ==
  deleteCredentialAt(_getOrigin(url), username,
                     Call("deleteCredential", url, username, "",
                          deleteCredentialResult(url, username), ""))

\* a variant that also lets the site prompt again
deleteAllForgetting(origin, call) ==
  IF origin = Null THEN noChange(call)
  ELSE /\ opCount < MaxOps
       /\ credentialsCache' = MapDelete(credentialsCache, origin)
       /\ _saveCredentials(credentialsCache', call)
       /\ opCount' = opCount + 1
       /\ neverSaveSites' = neverSaveSites \ {origin}
       /\ UNCHANGED <<useOSStorage, neverSaveFile, now, faulty, blockVars>>

deleteAllAt(origin, call) ==
  IF origin = Null THEN noChange(call)
  ELSE storeCache(MapDelete(credentialsCache, origin), call)

deleteAllForOrigin(url) ==
  deleteAllAt(_getOrigin(url),
              Call("deleteAllForOrigin", url, "", "", _getOrigin(url) # Null, ""))

\* credential.username = newUsername; credential.updatedAt = Date.now()
renamed(credentials, i, newUsername, time) ==
  [credentials EXCEPT ![i] = [@ EXCEPT !.username = newUsername, !.updatedAt = time]]

\* whether updateUsername goes through: the record exists and the new name is free
canRename(credentials, oldUsername, newUsername) ==
  /\ \E i \in DOMAIN credentials : credentials[i].username = oldUsername
  /\ ~\E i \in DOMAIN credentials : credentials[i].username = newUsername

updateUsernameAt(origin, oldUsername, newUsername, call) ==
  IF origin = Null
     \/ ~canRename(credentialsOrEmpty(credentialsCache, origin), oldUsername, newUsername)
  THEN noChange(call)
  ELSE storeCache(MapSet(credentialsCache, origin,
                         renamed(MapGet(credentialsCache, origin),
                                 findIndexByUsername(MapGet(credentialsCache, origin),
                                                     oldUsername),
                                 newUsername, now)),
                  call)

\* the return value of updateUsername
updateUsernameResult(url, oldUsername, newUsername) ==
  /\ _getOrigin(url) # Null
  /\ canRename(credentialsOrEmpty(credentialsCache, _getOrigin(url)), oldUsername, newUsername)

updateUsername(url, oldUsername, newUsername) ==
  updateUsernameAt(_getOrigin(url), oldUsername, newUsername,
                   Call("updateUsername", url, oldUsername, newUsername,
                        updateUsernameResult(url, oldUsername, newUsername), ""))

clearAllCredentials ==
  storeCache(MapClear(credentialsCache), Call("clearAllCredentials", "", "", "", TRUE, ""))

(***************************************************************************)
(* CredentialManager: export and import of a backup.                       *)
(***************************************************************************)
\* exportCredentials: the backup, sealed under the master password
exportCredentials(masterPassword, iv) ==
  [data |-> JSONstringify([credentials |-> credentialsCache, version |-> 1,
                           exportedAt |-> now]),
   iv |-> iv,
   masterPassword |-> masterPassword]

Record(username, password, createdAt, updatedAt) ==
  [username |-> username, password |-> password,
   createdAt |-> createdAt, updatedAt |-> updatedAt]

Backup(masterPassword, exportedAt, credentials) ==
  [data |-> JSONstringify([credentials |-> credentials, version |-> 1,
                           exportedAt |-> exportedAt]),
   iv |-> "iv1",
   masterPassword |-> masterPassword]

\* backup files sealed under "m1": two exports of this program, one file whose
\* array for an origin names a username twice, and one whose array for an origin
\* is empty
BackupFiles ==
  {Backup("m1", 1,
          <<[key |-> "https://example.com",
             value |-> <<Record("alice", "p2", 0, 1)>>]>>),
   Backup("m1", 0,
          <<[key |-> "https://example.com",
             value |-> <<Record("bob", "p1", 0, 0), Record("alice", "p1", 0, 0)>>],
            [key |-> "http://other.test:8080",
             value |-> <<Record("alice", "p1", 0, 0)>>]>>),
   Backup("m1", 2,
          <<[key |-> "http://other.test:8080",
             value |-> <<Record("bob", "p1", 0, 0), Record("bob", "p2", 1, 2)>>]>>),
   Backup("m1", 1, <<[key |-> "http://other.test:8080", value |-> <<>>]>>)}

\* one round of the inner loop of importCredentials
mergeOne(existing, existingIndex, cred) ==
  IF existingIndex > 0
  THEN IF cred.updatedAt > existing[existingIndex].updatedAt
       THEN [existing EXCEPT ![existingIndex] = cred]
       ELSE existing
  ELSE Append(existing, cred)

RECURSIVE mergeCredentials(_, _)
\* the inner loop of importCredentials, on the array `existing`
mergeCredentials(existing, creds) ==
  IF creds = <<>> THEN existing
  ELSE mergeCredentials(
         mergeOne(existing, findIndexByUsername(existing, Head(creds).username), Head(creds)),
         Tail(creds))

RECURSIVE mergeEntries(_, _)
\* the outer loop of importCredentials, over Object.entries(data.credentials)
mergeEntries(cache, entries) ==
  IF entries = <<>> THEN cache
  ELSE mergeEntries(
         MapSet(cache, Head(entries).key,
                mergeCredentials(credentialsOrEmpty(cache, Head(entries).key),
                                 Head(entries).value)),
         Tail(entries))

\* the return value of importCredentials
importCredentialsResult(exportedData, masterPassword) ==
  IF exportedData.masterPassword = masterPassword
  THEN [success |-> TRUE, count |-> Len(JSONparse(exportedData.data).credentials)]
  ELSE [success |-> FALSE, count |-> 0]

\* the call importCredentials of the backup taken at exportedAt
importCall(exportedAt, masterPassword, success) ==
  Call("importCredentials", numberToString(exportedAt), "", masterPassword, success, "")

importCredentials(exportedData, masterPassword) ==
  IF exportedData.masterPassword # masterPassword
  THEN noChange(importCall(JSONparse(exportedData.data).exportedAt, masterPassword, FALSE))
  ELSE storeCache(mergeEntries(credentialsCache, JSONparse(exportedData.data).credentials),
                  importCall(JSONparse(exportedData.data).exportedAt, masterPassword, TRUE))

\* the clock advances between calls
Tick ==
  /\ now < MaxTime
  /\ now' = now + 1
  /\ UNCHANGED <<credentialsCache, neverSaveSites, useOSStorage, credentialsFile,
                 neverSaveFile, encryptionKeyFile, faulty, opCount, lastCall, blockVars,
                 uiVars>>

\* the constructor on a fresh profile directory
InitStore ==
  /\ credentialsCache = <<>>
  /\ neverSaveSites = {}
  /\ useOSStorage \in BOOLEAN
  /\ credentialsFile = NoFile
  /\ neverSaveFile = NoFile
  /\ encryptionKeyFile = NoFile
  /\ now = 0
  /\ faulty = FALSE
  /\ opCount = 0
  /\ lastCall = Call("", "", "", "", FALSE, "")

NextStore ==
  \/ \E url \in Urls, username \in Usernames, password \in Passwords :
       saveCredential(url, username, password) /\ UNCHANGED uiVars
  \/ \E url \in Urls, username \in Usernames :
       deleteCredential(url, username) /\ UNCHANGED uiVars
  \/ \E url \in Urls : deleteAllForOrigin(url) /\ UNCHANGED uiVars
  \/ \E url \in Urls, oldUsername \in Usernames, newUsername \in Usernames :
       updateUsername(url, oldUsername, newUsername) /\ UNCHANGED uiVars
  \/ clearAllCredentials /\ UNCHANGED uiVars
  \/ \E exportedData \in BackupFiles, masterPassword \in MasterPasswords :
       importCredentials(exportedData, masterPassword) /\ UNCHANGED uiVars
  \/ \E url \in Urls : neverSaveForSite(url) /\ UNCHANGED uiVars
  \/ \E url \in Urls : enableSaveForSite(url) /\ UNCHANGED uiVars
  \/ Tick

(***************************************************************************)
(* RegExp objects.  The patterns of the source are sequences of literals,  *)
(* character classes, optional characters, starred classes and ".*".      *)
(* A match is case-insensitive under the i flag; under the g flag a        *)
(* RegExp object keeps lastIndex between calls of test.                    *)
(***************************************************************************)
Lit(s) == [s |-> s, k |-> "lit"]
Cls(s) == [s |-> s, k |-> "cls"]
Opt(s) == [s |-> s, k |-> "opt"]
Star(s) == [s |-> s, k |-> "star"]
AnyStar == [s |-> "", k |-> "anystar"]

\* RegExp.prototype.global
hasGlobalFlag(flags) == includes(flags, "g")

\* the tokens with their letters folded
foldCase(re) == [k \in DOMAIN re |-> [s |-> toLowerCase(re[k].s), k |-> re[k].k]] @@ <<>>

\* the RegExp object of the literal /re/flags
RegExp(re, flags) == [flags |-> flags, source |-> re]

\* whether the token t accepts the character of s at pos
accepts(t, s, pos) ==
  pos <= Len(s) /\ (t.k = "anystar" \/ isOneOf(SubSeq(s, pos, pos), t.s))

\* the number of characters from pos on that the token t accepts
maxRun(t, s, pos) ==
  minOrZero({i \in pos..(Len(s) + 1) : ~accepts(t, s, i)}) - pos

\* the literal text lit stands at pos of s
litAt(lit, s, pos) ==
  pos + Len(lit) - 1 <= Len(s) /\ SubSeq(s, pos, pos + Len(lit) - 1) = lit

RECURSIVE matchEnd(_, _, _, _)
\* a greedy star that may take up to n characters: the longest run after which the
\* rest of the pattern matches
starEnd(re, k, s, pos, n) ==
  IF \E m \in 0..n : matchEnd(re, k + 1, s, pos + m) # 0
  THEN matchEnd(re, k + 1, s,
                pos + maxOrZero({m \in 1..n : matchEnd(re, k + 1, s, pos + m) # 0}))
  ELSE 0

\* the index after a match of the tokens k.. of re at pos of s, 0 when there is none;
\* an optional item is tried first with its character, then without it
matchEnd(re, k, s, pos) ==
  CASE k > Len(re) -> pos
    [] k <= Len(re) /\ re[k].k = "lit" /\ litAt(re[k].s, s, pos) ->
         matchEnd(re, k + 1, s, pos + Len(re[k].s))
    [] k <= Len(re) /\ re[k].k = "cls" /\ accepts(re[k], s, pos) ->
         matchEnd(re, k + 1, s, pos + 1)
    [] k <= Len(re) /\ re[k].k = "opt" /\ accepts(re[k], s, pos)
         /\ matchEnd(re, k + 1, s, pos + 1) # 0 ->
         matchEnd(re, k + 1, s, pos + 1)
    [] k <= Len(re) /\ re[k].k = "opt" -> matchEnd(re, k + 1, s, pos)
    [] k <= Len(re) /\ re[k].k \in {"star", "anystar"} ->
         starEnd(re, k, s, pos, maxRun(re[k], s, pos))
    [] OTHER -> 0

\* the index after the first match that starts at pos or later, 0 when there is none
findFrom(re, s, pos) ==
  IF \E p \in pos..(Len(s) + 1) : matchEnd(re, 1, s, p) # 0
  THEN matchEnd(re, 1, s, minOrZero({p \in pos..(Len(s) + 1) : matchEnd(re, 1, s, p) # 0}))
  ELSE 0

\* the outcome of a search that ended at `end`, for a RegExp whose lastIndex was li
testOutcome(regexp, end, li) ==
  [lastIndex |-> IF hasGlobalFlag(regexp.flags) THEN (IF end # 0 THEN end - 1 ELSE 0) ELSE li,
   matched |-> end # 0]

\* the search of test: under the i flag both sides are compared with their letters folded
testSearch(regexp, ignoreCase, s, li) ==
  findFrom(IF ignoreCase THEN foldCase(regexp.source) ELSE regexp.source,
           IF ignoreCase THEN toLowerCase(s) ELSE s,
           IF hasGlobalFlag(regexp.flags) THEN li + 1 ELSE 1)

\* RegExp.prototype.test(s) of a RegExp object whose lastIndex is li
RegExpTest(regexp, s, li) ==
  testOutcome(regexp, testSearch(regexp, includes(regexp.flags, "i"), s, li), li)

(***************************************************************************)
(* The block lists of src/main.js.  Two patterns whose literal is outside  *)
(* ASCII ("[?&]" followed by two CJK characters, one in BLOCK_PATTERNS and *)
(* one in youtubeAdPatterns) match no URL of the model and are left out.   *)
(***************************************************************************)
AD_DOMAINS ==
  <<
    "doubleclick.net",
    "googlesyndication.com",
    "googleadservices.com",
    "google-analytics.com",
    "googletagmanager.com",
    "googletagservices.com",
    "adservice.google.com",
    "pagead2.googlesyndication.com",
    "tpc.googlesyndication.com",
    "youtubekids.com",
    "facebook.com/tr",
    "connect.facebook.net/en_US/fbevents",
    "pixel.facebook.com",
    "an.facebook.com",
    "amazon-adsystem.com",
    "aax.amazon-adsystem.com",
    "fls-na.amazon-adsystem.com",
    "bat.bing.com",
    "ads.microsoft.com",
    "ads-twitter.com",
    "analytics.twitter.com",
    "static.ads-twitter.com",
    "adnxs.com",
    "advertising.com",
    "adsrvr.org",
    "adroll.com",
    "criteo.com",
    "criteo.net",
    "outbrain.com",
    "taboola.com",
    "mgid.com",
    "revcontent.com",
    "zergnet.com",
    "adcolony.com",
    "admob.com",
    "applovin.com",
    "unity3d.com/webview",
    "unityads.unity3d.com",
    "mopub.com",
    "vungle.com",
    "chartboost.com",
    "inmobi.com",
    "pubmatic.com",
    "rubiconproject.com",
    "openx.net",
    "spotxchange.com",
    "smartadserver.com",
    "media.net",
    "contextweb.com",
    "bidswitch.net",
    "casalemedia.com",
    "lijit.com",
    "sovrn.com",
    "sharethrough.com",
    "triplelift.com",
    "indexexchange.com",
    "scorecardresearch.com",
    "quantserve.com",
    "segment.io",
    "segment.com",
    "mixpanel.com",
    "amplitude.com",
    "hotjar.com",
    "fullstory.com",
    "mouseflow.com",
    "crazyegg.com",
    "clicktale.com",
    "optimizely.com",
    "omtrdc.net",
    "demdex.net",
    "bluekai.com",
    "krxd.net",
    "exelator.com",
    "tapad.com",
    "rlcdn.com",
    "liveramp.com",
    "adsymptotic.com",
    "newrelic.com",
    "nr-data.net",
    "propellerads.com",
    "popcash.net",
    "popads.net",
    "exoclick.com",
    "juicyads.com",
    "trafficjunky.com",
    "clickadu.com",
    "hilltopads.com",
    "imasdk.googleapis.com",
    "static.doubleclick.net",
    "ad.doubleclick.net",
    "pubads.g.doubleclick.net",
    "pixel.wp.com",
    "stats.wp.com",
    "pixel.quantserve.com"
  >>

BLOCK_PATTERNS ==
  <<
    RegExp(<<Lit("/ads/")>>, "i"),
    RegExp(<<Lit("/ad/")>>, "i"),
    RegExp(<<Lit("/advertisement")>>, "i"),
    RegExp(<<Lit("/advert")>>, "i"),
    RegExp(<<Lit("/banner"), Opt("_-"), Lit("ad")>>, "i"),
    RegExp(<<Lit("/pop"), Opt("_-"), Lit("under")>>, "i"),
    RegExp(<<Lit("/pop"), Opt("_-"), Lit("up")>>, "i"),
    RegExp(<<Lit(".gif?"), AnyStar, Lit("ad")>>, "i"),
    RegExp(<<Lit("/sponsored")>>, "i"),
    RegExp(<<Lit("/tracking")>>, "i"),
    RegExp(<<Lit("/tracker")>>, "i"),
    RegExp(<<Lit("/pixel.")>>, "i"),
    RegExp(<<Lit("/beacon")>>, "i"),
    RegExp(<<Lit("/analytics.js")>>, "i"),
    RegExp(<<Lit("/gtag/js")>>, "i"),
    RegExp(<<Lit("/gtm.js")>>, "i"),
    RegExp(<<Lit("ad"), Opt("_-"), Lit("server")>>, "i"),
    RegExp(<<Lit("adserv")>>, "i"),
    RegExp(<<Lit("doubleclick")>>, "i"),
    RegExp(<<Lit("/pagead/")>>, "i"),
    RegExp(<<Lit("/adsbygoogle")>>, "i"),
    RegExp(<<Lit("google_ads")>>, "i"),
    RegExp(<<Lit("prebid")>>, "i"),
    RegExp(<<Lit("/outbrain")>>, "i"),
    RegExp(<<Lit("/taboola")>>, "i"),
    RegExp(<<Lit("/mgid")>>, "i"),
    RegExp(<<Cls("?&"), Lit("ad_")>>, "i"),
    RegExp(<<Cls("?&"), Lit("dae_")>>, "i"),
    RegExp(<<Lit("/api/stats/ads")>>, "i"),
    RegExp(<<Lit("/get_midroll_info")>>, "i"),
    RegExp(<<Lit("/player_ads")>>, "i"),
    RegExp(<<Lit("/ads.js")>>, "i"),
    RegExp(<<Lit("/ad_status")>>, "i"),
    RegExp(<<Lit("/youtubei/v1/ads")>>, "i"),
    RegExp(<<Lit("/v1/postpublish")>>, "i"),
    RegExp(<<Lit("/ptracking")>>, "i"),
    RegExp(<<Lit("/attribution")>>, "i"),
    RegExp(<<Lit("/set_adsense_visiblity")>>, "i"),
    RegExp(<<Lit("/ivs/set")>>, "i"),
    RegExp(<<Lit("/drm_license")>>, "i"),
    RegExp(<<Lit("/videotagsessio")>>, "i"),
    RegExp(<<Lit("/watermark/"), AnyStar, Lit("ad")>>, "i"),
    RegExp(<<Lit("ytad")>>, ""),
    RegExp(<<Lit("youtubeads")>>, ""),
    RegExp(<<Lit("video_ad")>>, ""),
    RegExp(<<Lit("adsegment")>>, ""),
    RegExp(<<Lit("/ad-stream")>>, "i"),
    RegExp(<<Lit("/preroll")>>, "i"),
    RegExp(<<Lit("/midroll")>>, "i"),
    RegExp(<<Lit("/postroll")>>, "i"),
    RegExp(<<Lit("adfmt")>>, ""),
    RegExp(<<Lit("adfmtc")>>, ""),
    RegExp(<<Lit("/htmlad.swf")>>, "i"),
    RegExp(<<Lit("/ad/"), Star(LowerAlpha), Lit(".js")>>, "i"),
    RegExp(<<Lit("/pubads")>>, "i"),
    RegExp(<<Lit("/gpt/pubads")>>, "i"),
    RegExp(<<Lit("/companion_ad")>>, "i"),
    RegExp(<<Lit("/vast")>>, ""),
    RegExp(<<Lit("/vmap")>>, ""),
    RegExp(<<Lit("/ima3")>>, "i"),
    RegExp(<<Lit("/imasdk")>>, "i"),
    RegExp(<<Lit("/dai")>>, ""),
    RegExp(<<Lit("/oembed"), AnyStar, Lit("ad")>>, "i"),
    RegExp(<<Lit("/adbreak")>>, "i"),
    RegExp(<<Lit("/adstart")>>, "i"),
    RegExp(<<Lit("/adtimeshift")>>, "i"),
    RegExp(<<Lit("/adpause")>>, "i"),
    RegExp(<<Lit("/adresume")>>, "i"),
    RegExp(<<Lit("/adclick")>>, "i"),
    RegExp(<<Lit("/adimpression")>>, "i"),
    RegExp(<<Lit("/adview")>>, ""),
    RegExp(<<Lit("/advol")>>, ""),
    RegExp(<<Lit("/adver")>>, ""),
    RegExp(<<Lit("/adframe")>>, ""),
    RegExp(<<Lit("/adfeed")>>, ""),
    RegExp(<<Lit("/adlog")>>, ""),
    RegExp(<<Lit("/adcount")>>, ""),
    RegExp(<<Lit("/adcountdown")>>, ""),
    RegExp(<<Lit("/adsystem")>>, ""),
    RegExp(<<Lit("/adsense")>>, ""),
    RegExp(<<Lit("/adsinfo")>>, ""),
    RegExp(<<Lit("/adspeed")>>, ""),
    RegExp(<<Lit("/adstory")>>, ""),
    RegExp(<<Lit("/adtest")>>, ""),
    RegExp(<<Lit("/adtrack")>>, ""),
    RegExp(<<Lit("/adurl")>>, ""),
    RegExp(<<Lit("/adverify")>>, ""),
    RegExp(<<Lit("/adwatch")>>, ""),
    RegExp(<<Lit("/adzone")>>, ""),
    RegExp(<<Lit("/adword")>>, ""),
    RegExp(<<Lit("/adwork")>>, ""),
    RegExp(<<Lit("/sponsored_search")>>, ""),
    RegExp(<<Lit("/product_ads")>>, ""),
    RegExp(<<Lit("/shopping_ads")>>, ""),
    RegExp(<<Lit("/display_ads")>>, ""),
    RegExp(<<Lit("/text_ads")>>, ""),
    RegExp(<<Lit("/link_ads")>>, ""),
    RegExp(<<Lit("/video_ads")>>, ""),
    RegExp(<<Lit("/instream_ads")>>, ""),
    RegExp(<<Lit("/preroll_ads")>>, ""),
    RegExp(<<Lit("/overlay_ads")>>, ""),
    RegExp(<<Lit("/banner_ads")>>, ""),
    RegExp(<<Lit("/sticky_ads")>>, ""),
    RegExp(<<Lit("/popup_ads")>>, ""),
    RegExp(<<Lit("/interstitial_ads")>>, ""),
    RegExp(<<Lit("/native_ads")>>, ""),
    RegExp(<<Lit("/native_ad")>>, ""),
    RegExp(<<Lit("/content_ads")>>, ""),
    RegExp(<<Lit("/contextual_ads")>>, ""),
    RegExp(<<Lit("/matched_content")>>, ""),
    RegExp(<<Lit("/custom_ads")>>, ""),
    RegExp(<<Lit("/house_ads")>>, ""),
    RegExp(<<Lit("/remnant_ads")>>, ""),
    RegExp(<<Lit("/backfill_ads")>>, ""),
    RegExp(<<Lit("/deadnet_ads")>>, "")
  >>

youtubeAdPatterns ==
  <<
    RegExp(<<Cls("?&"), Lit("ad_")>>, ""),
    RegExp(<<Cls("?&"), Lit("dae_")>>, ""),
    RegExp(<<Lit("/api/stats/ads")>>, ""),
    RegExp(<<Lit("/get_midroll_info")>>, ""),
    RegExp(<<Lit("/player_ads")>>, ""),
    RegExp(<<Lit("/ads.js")>>, ""),
    RegExp(<<Lit("/ad_status")>>, ""),
    RegExp(<<Lit("/youtubei/v1/ads")>>, ""),
    RegExp(<<Lit("/v1/postpublish")>>, ""),
    RegExp(<<Lit("/ptracking")>>, ""),
    RegExp(<<Lit("/attribution")>>, ""),
    RegExp(<<Lit("/set_adsense_visiblity")>>, ""),
    RegExp(<<Lit("/ivs/set")>>, ""),
    RegExp(<<Lit("/drm_license")>>, ""),
    RegExp(<<Lit("/videotagsessio")>>, ""),
    RegExp(<<Lit("/watermark/"), AnyStar, Lit("ad")>>, ""),
    RegExp(<<Lit("ytad")>>, ""),
    RegExp(<<Lit("youtubeads")>>, ""),
    RegExp(<<Lit("video_ad")>>, ""),
    RegExp(<<Lit("adsegment")>>, ""),
    RegExp(<<Lit("/ad-stream")>>, ""),
    RegExp(<<Lit("/preroll")>>, ""),
    RegExp(<<Lit("/midroll")>>, ""),
    RegExp(<<Lit("/postroll")>>, ""),
    RegExp(<<Lit("adfmt")>>, ""),
    RegExp(<<Lit("adfmtc")>>, ""),
    RegExp(<<Lit("/htmlad.swf")>>, ""),
    RegExp(<<Lit("/ad/"), Star(LowerAlpha), Lit(".js")>>, ""),
    RegExp(<<Lit("/pubads")>>, ""),
    RegExp(<<Lit("/gpt/pubads")>>, ""),
    RegExp(<<Lit("/companion_ad")>>, ""),
    RegExp(<<Lit("/vast")>>, ""),
    RegExp(<<Lit("/vmap")>>, ""),
    RegExp(<<Lit("/ima3")>>, ""),
    RegExp(<<Lit("/imasdk")>>, ""),
    RegExp(<<Lit("/dai")>>, ""),
    RegExp(<<Lit("/oembed"), AnyStar, Lit("ad")>>, ""),
    RegExp(<<Lit("/adbreak")>>, ""),
    RegExp(<<Lit("/adstart")>>, ""),
    RegExp(<<Lit("/adtimeshift")>>, ""),
    RegExp(<<Lit("/adpause")>>, ""),
    RegExp(<<Lit("/adresume")>>, ""),
    RegExp(<<Lit("/adclick")>>, ""),
    RegExp(<<Lit("/adimpression")>>, ""),
    RegExp(<<Lit("/adview")>>, ""),
    RegExp(<<Lit("/adsystem")>>, ""),
    RegExp(<<Lit("/adsense")>>, ""),
    RegExp(<<Lit("/adsinfo")>>, ""),
    RegExp(<<Lit("/adspeed")>>, ""),
    RegExp(<<Lit("/adstory")>>, ""),
    RegExp(<<Lit("/adtest")>>, ""),
    RegExp(<<Lit("/adtrack")>>, ""),
    RegExp(<<Lit("/adurl")>>, ""),
    RegExp(<<Lit("/adverify")>>, ""),
    RegExp(<<Lit("/adwatch")>>, ""),
    RegExp(<<Lit("/adzone")>>, ""),
    RegExp(<<Lit("/ptracking?"), AnyStar, Lit("video_id")>>, ""),
    RegExp(<<Lit("/attribution?")>>, ""),
    RegExp(<<Lit("/get_ad_signals")>>, ""),
    RegExp(<<Lit("/ad_frag")>>, ""),
    RegExp(<<Lit("/ads/"), AnyStar, Lit(".js")>>, ""),
    RegExp(<<Lit("/creative/"), AnyStar, Lit(".js")>>, ""),
    RegExp(<<Lit("/load_ad")>>, ""),
    RegExp(<<Lit("/load_ads")>>, ""),
    RegExp(<<Lit("/show_ad")>>, ""),
    RegExp(<<Lit("/show_ads")>>, ""),
    RegExp(<<Lit("/trigger_ad")>>, ""),
    RegExp(<<Lit("/log_ad")>>, ""),
    RegExp(<<Lit("/ping_ad")>>, ""),
    RegExp(<<Lit("/ping_ads")>>, ""),
    RegExp(<<Lit("/track_ad")>>, ""),
    RegExp(<<Lit("/track_ads")>>, "")
  >>
(***************************************************************************)
(* AdBlocker.                                                              *)
(***************************************************************************)
\* the indexes of the RegExp objects of `patterns` that keep a lastIndex
GlobalPatterns(patterns) == {i \in DOMAIN patterns : hasGlobalFlag(patterns[i].flags)}

\* lastIndex of RegExp objects that were just created
FreshLastIndex(patterns) == [i \in GlobalPatterns(patterns) |-> 0]

\* pattern.test(s) of pattern i, whose lastIndex is li[i] when it is global
testAt(patterns, i, s, li) ==
  RegExpTest(patterns[i], s, IF i \in DOMAIN li THEN li[i] ELSE 0)

\* the index of the first pattern that matches, 0 when none does; a test reads and
\* writes only the lastIndex of its own pattern
firstHit(patterns, s, li) ==
  minOrZero({i \in DOMAIN patterns : testAt(patterns, i, s, li).matched})

\* lastIndex after the loop has tested the patterns 1..last
lastIndexTo(patterns, s, li, last) ==
  [i \in DOMAIN li |-> IF i <= last THEN testAt(patterns, i, s, li).lastIndex ELSE li[i]]

\* the loop that returned at pattern hitAt, or ran to its end when hitAt = 0
testPatternsTo(patterns, s, li, hitAt) ==
  [lastIndex |-> lastIndexTo(patterns, s, li, IF hitAt = 0 THEN Len(patterns) ELSE hitAt),
   hit |-> hitAt # 0]

\* for (const pattern of patterns) if (pattern.test(s)) return true: [hit, lastIndex]
testPatterns(patterns, s, li) == testPatternsTo(patterns, s, li, firstHit(patterns, s, li))

\* for (const domain of AD_DOMAINS) if (urlLower.includes(domain)) return true
matchesAdDomain(urlLower) ==
  \E i \in DOMAIN AD_DOMAINS : includes(urlLower, AD_DOMAINS[i])

\* the player-API branch of isYouTubeRelated
isAdPlayerCall(urlLower, pageUrl) ==
  /\ includes(urlLower, "/youtubei/v1/player")
     \/ includes(urlLower, "/api/player")
  /\ pageUrl # "" /\ includes(pageUrl, "youtube.com")
  /\ includes(urlLower, "ad") \/ includes(urlLower, "adformat")

\* isYouTubeRelated, computed: its patterns are created by the call
isYouTubeRelatedOf(urlLower, pageUrl) ==
  /\ includes(urlLower, "youtube.com")
     \/ includes(urlLower, "googlevideo.com")
  /\ \/ testPatterns(youtubeAdPatterns, urlLower, FreshLastIndex(youtubeAdPatterns)).hit
     \/ isAdPlayerCall(urlLower, pageUrl)

\* a request url for each entry of AD_DOMAINS, one in another case, and the
\* script the entry with capital letters is about
DomainUrls ==
  {"https://" \o AD_DOMAINS[i] \o "/x.js" : i \in DOMAIN AD_DOMAINS}
    \cup {"https://AD.DoubleClick.NET/x.js", "https://connect.facebook.net/en_US/fbevents.js"}

\* the checks of shouldBlock that read no state of the blocker, computed once
\* for each request url of the model
StaticChecks ==
  [u \in RequestUrls \cup DomainUrls |->
     [patterns |-> testPatterns(BLOCK_PATTERNS, u, <<>>).hit,
      domain |-> matchesAdDomain(toLowerCase(u)),
      youtube |-> [p \in PageUrls \cup {""} |-> isYouTubeRelatedOf(toLowerCase(u), p)]]] @@ <<>>

isYouTubeRelated(url, pageUrl) == StaticChecks[url].youtube[pageUrl]

\* the loop over BLOCK_PATTERNS; without global patterns it reads no state
testBlockPatterns(url, li) ==
  IF DOMAIN li = {} THEN [lastIndex |-> li, hit |-> StaticChecks[url].patterns]
  ELSE testPatterns(BLOCK_PATTERNS, url, li)

\* isWhitelisted with the whitelist wl
isWhitelistedIn(url, wl) == newURL(url).ok /\ newURL(url).hostname \in wl

isWhitelisted(url) == isWhitelistedIn(url, whitelist)

\* shouldBlock after the loop over BLOCK_PATTERNS ended with t
afterPatterns(url, pageUrl, t) ==
  [lastIndex |-> t.lastIndex, result |-> t.hit \/ isYouTubeRelated(url, pageUrl)]

\* a variant that returns after the loop over AD_DOMAINS
shouldBlockDomainsOnly(url, pageUrl, wl, li) ==
  IF pageUrl # "" /\ isWhitelistedIn(pageUrl, wl) THEN [lastIndex |-> li, result |-> FALSE]
  ELSE [lastIndex |-> li, result |-> StaticChecks[url].domain]

\* shouldBlock of an enabled blocker: [result, lastIndex]
shouldBlockEnabled(url, pageUrl, wl, li) ==
  IF pageUrl # "" /\ isWhitelistedIn(pageUrl, wl) THEN [lastIndex |-> li, result |-> FALSE]
  ELSE IF StaticChecks[url].domain THEN [lastIndex |-> li, result |-> TRUE]
  ELSE afterPatterns(url, pageUrl, testBlockPatterns(url, li))

\* a variant without the check of the enabled flag
shouldBlockAlways(url, pageUrl, en, wl, li) == shouldBlockEnabled(url, pageUrl, wl, li)

\* shouldBlock on the flag en, the whitelist wl and the lastIndex values li
shouldBlockIn(url, pageUrl, en, wl, li) ==
  IF ~en THEN [lastIndex |-> li, result |-> FALSE]
  ELSE shouldBlockEnabled(url, pageUrl, wl, li)

\* a variant that blocks only until the first request of the session was blocked
shouldBlockOnce(url, pageUrl) ==
  stats.sessionBlocked = 0 /\ shouldBlockIn(url, pageUrl, enabled, whitelist, lastIndex).result

\* the return value of shouldBlock
shouldBlock(url, pageUrl) == shouldBlockIn(url, pageUrl, enabled, whitelist, lastIndex).result

\* the lastIndex values shouldBlock leaves behind
lastIndexAfter(url, pageUrl) ==
  shouldBlockIn(url, pageUrl, enabled, whitelist, lastIndex).lastIndex

\* details.webContentsId?.toString() || 'unknown'
tabIdOf(details) ==
  IF details.webContentsId = <<>> THEN "unknown"
  ELSE numberToString(details.webContentsId[1])

\* recordBlocked saves the settings at every SaveEvery-th block of the session
SaveEvery == 10

\* saveSettings: localStorage afterwards.  Where the main process has no
\* localStorage the call throws, which is caught, and nothing is stored.
saveSettings(storage, en, wl, st) ==
  IF storage.available
  THEN [storage EXCEPT !.adBlockerSettings =
          <<JSONstringify([enabled |-> en, whitelist |-> wl,
                           totalBlocked |-> st.totalBlocked])>>]
  ELSE storage

\* loadSettings: the settings read from localStorage, the constructor's values
\* where the call throws or nothing is stored.  The whitelist is stored as the
\* array of the set's members and read back into a set.
loadSettings(storage) ==
  IF storage.available /\ storage.adBlockerSettings # <<>>
  THEN [enabled |-> JSONparse(storage.adBlockerSettings[1]).enabled # FALSE,
        whitelist |-> JSONparse(storage.adBlockerSettings[1]).whitelist,
        totalBlocked |-> JSONparse(storage.adBlockerSettings[1]).totalBlocked]
  ELSE [enabled |-> TRUE, whitelist |-> {}, totalBlocked |-> 0]

\* getBlockedCount(tabId) on the stats st
getBlockedCount(st, tabId) ==
  IF MapHas(st.blockedByTab, tabId) THEN MapGet(st.blockedByTab, tabId) ELSE 0

\* a variant that counts the block for the session and the tab only
recordBlockedUntotalled(st, tabId) ==
  [sessionBlocked |-> st.sessionBlocked + 1,
   totalBlocked |-> st.totalBlocked,
   blockedByTab |-> MapSet(st.blockedByTab, tabId, getBlockedCount(st, tabId) + 1)]

\* recordBlocked(tabId): the stats afterwards
recordBlocked(st, tabId) ==
  [sessionBlocked |-> st.sessionBlocked + 1,
   totalBlocked |-> st.totalBlocked + 1,
   blockedByTab |-> MapSet(st.blockedByTab, tabId,
                           (IF MapHas(st.blockedByTab, tabId)
                            THEN MapGet(st.blockedByTab, tabId) ELSE 0) + 1)]

\* recordBlocked(tabId): localStorage afterwards, st being the stats after the increment
savedAfterBlock(storage, st) ==
  IF st.sessionBlocked % SaveEvery = 0 THEN saveSettings(storage, enabled, whitelist, st)
  ELSE storage

\* getStats on the stats st
getStatsOf(st) ==
  [enabled |-> enabled, sessionBlocked |-> st.sessionBlocked,
   totalBlocked |-> st.totalBlocked, whitelistCount |-> Cardinality(whitelist)]

\* getStats
getStats == getStatsOf(stats)

\* the data of the ad-blocked message the handler sends to the window
adBlockedEvent(details, st) ==
  [url |-> details.url,
   webContentsId |-> IF details.webContentsId = <<>> THEN Null
                     ELSE numberToString(details.webContentsId[1]),
   stats |-> getStatsOf(st),
   type |-> details.resourceType]

\* what the handlers of the adblock-* channels answer
IpcResponse == [kind |-> "ipc", answer |-> FALSE, request |-> NoRequest, adBlocked |-> <<>>]

\* a variant that starts the session's count again
toggleResetting ==
  /\ enabled' = ~enabled
  /\ localStorage' = saveSettings(localStorage, ~enabled, whitelist, stats)
  /\ response' = IpcResponse
  /\ stats' = [stats EXCEPT !.sessionBlocked = 0]
  /\ UNCHANGED <<whitelist, lastIndex, tabs, storeVars, uiVars>>

\* adblock-toggle: toggle, then adblock-state-changed
toggle ==
  /\ enabled' = ~enabled
  /\ localStorage' = saveSettings(localStorage, ~enabled, whitelist, stats)
  /\ response' = IpcResponse
  /\ UNCHANGED <<whitelist, stats, lastIndex, tabs, storeVars, uiVars>>

\* adblock-whitelist-add: addToWhitelist(domain), then adblock-whitelist-updated
addToWhitelist(domain) ==
  /\ whitelist' = whitelist \cup {domain}
  /\ localStorage' = saveSettings(localStorage, enabled, whitelist \cup {domain}, stats)
  /\ response' = IpcResponse
  /\ UNCHANGED <<enabled, stats, lastIndex, tabs, storeVars, uiVars>>

\* adblock-whitelist-remove: removeFromWhitelist(domain), then adblock-whitelist-updated
removeFromWhitelist(domain) ==
  /\ whitelist' = whitelist \ {domain}
  /\ localStorage' = saveSettings(localStorage, enabled, whitelist \ {domain}, stats)
  /\ response' = IpcResponse
  /\ UNCHANGED <<enabled, stats, lastIndex, tabs, storeVars, uiVars>>

\* a variant that cancels whatever the resource type is
handlerCancelsAnyType(details) ==
  IF ~enabled THEN FALSE ELSE shouldBlock(details.url, details.referrer)

\* whether the onBeforeRequest handler answers cancel: true
handlerCancels(details) ==
  IF ~enabled THEN FALSE
  ELSE IF details.resourceType = "mainFrame" THEN FALSE
  ELSE shouldBlock(details.url, details.referrer)

\* the key of a tab that was closed before the first step
EarlierTab == "0"

\* what the handler does when it cancels: recordBlocked, then the ad-blocked message
\* with getStats() to the main window, which exists as long as its pages issue requests
cancelled(details, st) ==
  /\ stats' = st
  /\ localStorage' = savedAfterBlock(localStorage, st)
  /\ response' = [kind |-> "request", answer |-> TRUE, request |-> details,
                  adBlocked |-> <<adBlockedEvent(details, st)>>]

\* what the handler does when it allows the request
allowed(details) ==
  /\ response' = [kind |-> "request", answer |-> FALSE, request |-> details,
                  adBlocked |-> <<>>]
  /\ UNCHANGED <<stats, localStorage>>

\* the onBeforeRequest handler of the default session, for a request of an open tab
\* or of no tab
onBeforeRequest(details) ==
  /\ stats.sessionBlocked < MaxBlocked + getBlockedCount(stats, EarlierTab)
  /\ \A id \in {details.webContentsId[i] : i \in DOMAIN details.webContentsId} : id \in tabs.open
  /\ IF handlerCancels(details) THEN cancelled(details, recordBlocked(stats, tabIdOf(details)))
     ELSE allowed(details)
  /\ lastIndex' = IF enabled /\ details.resourceType # "mainFrame"
                  THEN lastIndexAfter(details.url, details.referrer) ELSE lastIndex
  /\ UNCHANGED <<enabled, whitelist, tabs, storeVars, uiVars>>

\* a call adBlocker.shouldBlock(url, pageUrl) by any other code
shouldBlockCall(url, pageUrl) ==
  /\ response' = [kind |-> "shouldBlock", answer |-> shouldBlock(url, pageUrl),
                  request |-> [NoRequest EXCEPT !.url = url, !.referrer = pageUrl],
                  adBlocked |-> <<>>]
  /\ lastIndex' = lastIndexAfter(url, pageUrl)
  /\ UNCHANGED <<enabled, whitelist, stats, localStorage, tabs, storeVars, uiVars>>

\* the webContents ids of the tabs the window opens
TabIds == {1, 2}

\* the tabs of a window that has opened the tabs TabIds and shows the first
tabsOpened ==
  [open |-> TabIds, created |-> Cardinality(TabIds), list |-> <<1, 2>>, active |-> 1]

\* the fields of a new AdBlocker before loadSettings, and the window with its tabs
blockerCreated ==
  /\ enabled = TRUE
  /\ whitelist = {}
  /\ stats = [sessionBlocked |-> 0, totalBlocked |-> 0, blockedByTab |-> <<>>]
  /\ lastIndex = FreshLastIndex(BLOCK_PATTERNS)
  /\ response = [kind |-> "none", answer |-> FALSE, request |-> NoRequest, adBlocked |-> <<>>]
  /\ tabs = tabsOpened

\* new AdBlocker(): loadSettings finds no localStorage
InitBlock ==
  /\ blockerCreated
  /\ localStorage = [available |-> FALSE, adBlockerSettings |-> <<>>]

NextBlock ==
  \/ toggle
  \/ \E domain \in Domains : addToWhitelist(domain)
  \/ \E domain \in Domains : removeFromWhitelist(domain)
  \/ \E details \in Requests : onBeforeRequest(details)
  \/ \E url \in RequestUrls, pageUrl \in PageUrls \cup {""} : shouldBlockCall(url, pageUrl)

\* TabManager.createTab: the new webview gets the next webContents id
createTab ==
  /\ tabs.open # {}
  /\ tabs.created < MaxTabs
  /\ tabs' = [open |-> tabs.open \cup {tabs.created + 1}, created |-> tabs.created + 1,
              list |-> Append(tabs.list, tabs.created + 1), active |-> tabs.created + 1]
  /\ UNCHANGED <<enabled, whitelist, stats, lastIndex, response, localStorage, storeVars, uiVars>>

\* the tabs after switchTab(tabId), which is called with another id than activeTabId
switched(t, tabId) == [t EXCEPT !.active = tabId]

\* tabs.findIndex(t => t.id === tabId), 0 when there is none
findIndexOfTab(list, tabId) == minOrZero({i \in DOMAIN list : list[i] = tabId})

\* the tab list without its entry at index
spliced(list, index) == SubSeq(list, 1, index - 1) \o SubSeq(list, index + 1, Len(list))

\* a variant of closeTab that leaves activeTabId alone
closedKeepingActive(t, tabId) ==
  [t EXCEPT !.open = @ \ {tabId}, !.list = spliced(@, findIndexOfTab(@, tabId))]

\* the tabs after closeTab(tabId) of a tab of the list: the tab is removed, and if it
\* was the active one the tab that has taken its place, or the last one, is switched to
closed(t, tabId) ==
  IF t.active = tabId /\ Len(t.list) > 1
  THEN switched([t EXCEPT !.open = @ \ {tabId},
                          !.list = spliced(@, findIndexOfTab(@, tabId))],
                spliced(t.list, findIndexOfTab(t.list, tabId))
                  [IF findIndexOfTab(t.list, tabId) < Len(t.list)
                   THEN findIndexOfTab(t.list, tabId) ELSE Len(t.list) - 1])
  ELSE [t EXCEPT !.open = @ \ {tabId}, !.list = spliced(@, findIndexOfTab(@, tabId))]

\* TabManager.switchTab(tabId), called with the id of a tab of the list
switchTab(tabId) ==
  /\ tabId \in tabs.open
  /\ tabs.active # tabId
  /\ tabs' = switched(tabs, tabId)
  /\ UNCHANGED <<enabled, whitelist, stats, lastIndex, response, localStorage, storeVars, uiVars>>

\* TabManager.closeTab of the tab whose webview has the webContents id tabId: the
\* window removes the webview and the tab, and with the last tab asks to close the
\* application; the main process is sent nothing about the tab
closeTab(tabId) ==
  /\ tabId \in tabs.open
  /\ tabs' = closed(tabs, tabId)
  /\ UNCHANGED <<enabled, whitelist, stats, lastIndex, response, localStorage, storeVars, uiVars>>

\* script requests of a page in each tab the window may create
TabRequests ==
  {[r EXCEPT !.webContentsId = <<id>>] : r \in SecondTabRequests, id \in 1..MaxTabs}

\* tabs are opened and closed while their pages issue requests
NextTabs ==
  \/ createTab
  \/ \E tabId \in 1..MaxTabs : switchTab(tabId)
  \/ \E tabId \in 1..MaxTabs : closeTab(tabId)
  \/ \E details \in TabRequests : onBeforeRequest(details)

\* the main process starts again: new AdBlocker() with loadSettings, and the
\* window with its tabs
newAdBlocker ==
  /\ stats.totalBlocked < MaxBlocked + getBlockedCount(stats, EarlierTab)
  /\ enabled' = loadSettings(localStorage).enabled
  /\ whitelist' = loadSettings(localStorage).whitelist
  /\ stats' = [sessionBlocked |-> 0,
               totalBlocked |-> loadSettings(localStorage).totalBlocked,
               blockedByTab |-> <<>>]
  /\ lastIndex' = FreshLastIndex(BLOCK_PATTERNS)
  /\ response' = [kind |-> "start", answer |-> FALSE, request |-> NoRequest, adBlocked |-> <<>>]
  /\ tabs' = tabsOpened
  /\ UNCHANGED <<localStorage, storeVars, uiVars>>

\* the numbers of requests blocked before the first step, all of the tab EarlierTab
EarlierBlocks == {0, SaveEvery - 2}

\* a session in which no setting was changed so far, in a main process with or
\* without localStorage
blockerRunning ==
  /\ enabled = TRUE
  /\ whitelist = {}
  /\ \E n \in EarlierBlocks :
       stats = [sessionBlocked |-> n, totalBlocked |-> n,
                blockedByTab |-> IF n = 0 THEN <<>> ELSE MapSet(<<>>, EarlierTab, n)]
  /\ lastIndex = FreshLastIndex(BLOCK_PATTERNS)
  /\ response = [kind |-> "none", answer |-> FALSE, request |-> NoRequest, adBlocked |-> <<>>]
  /\ tabs = tabsOpened
  /\ \E available \in BOOLEAN :
       localStorage = [available |-> available, adBlockerSettings |-> <<>>]

\* the operations that change the block state, and restarts
NextSettings ==
  \/ toggle
  \/ \E domain \in Domains : addToWhitelist(domain)
  \/ \E domain \in Domains : removeFromWhitelist(domain)
  \/ \E details \in SecondTabRequests : onBeforeRequest(details)
  \/ newAdBlocker

\* the blocker asked about requests to the hosts of its domain blocklist
NextDomains ==
  \/ toggle
  \/ \E domain \in Domains : addToWhitelist(domain)
  \/ \E domain \in Domains : removeFromWhitelist(domain)
  \/ \E url \in DomainUrls, pageUrl \in PageUrls \cup {""} : shouldBlockCall(url, pageUrl)

(***************************************************************************)
(* PasswordProtection: the lock of the browser (browser-lock.json).        *)
(***************************************************************************)
DEFAULT_PASSWORD == "KHULETOJHA"
MAX_ATTEMPTS == 3

\* the passwords the user types
LockPasswords == {DEFAULT_PASSWORD, "abcd", "abc", ""}

\* hashPassword(password): the SHA-256 digest in hex, which the model writes as the
\* tagged password; different passwords of the model have different digests
hashPassword(password) == "sha256:" \o password

\* the config of a profile without browser-lock.json, and of resetToDefault
defaultConfig ==
  [passwordHash |-> hashPassword(DEFAULT_PASSWORD), failedAttempts |-> 0,
   lastFailedAttempt |-> <<>>]

\* loadConfig(): the parsed file if it exists, the default config otherwise
loadConfig(file) == IF file.exists THEN file.data ELSE defaultConfig

\* the file after saveConfig() has written config
saveConfig(config) == [exists |-> TRUE, data |-> config]

\* new PasswordProtection(userDataPath) on a profile whose lock file is `file`
newPasswordProtection(file) ==
  [result |-> [success |-> TRUE], file |-> file, config |-> loadConfig(file),
   history |-> <<>>]

\* the object after a call that has set config to `config`, saved it and returned
\* `result`; `event` tells the history what the call was
saved(config, result, event) ==
  [result |-> result, file |-> saveConfig(config), config |-> config,
   history |-> Append(lock.history, event)]

\* what verifyPassword returns after a wrong password, config.failedAttempts counted
wrongPassword(failedAttempts) ==
  IF failedAttempts >= MAX_ATTEMPTS
  THEN [success |-> FALSE, shouldWipe |-> TRUE, remainingAttempts |-> 0]
  ELSE [success |-> FALSE, shouldWipe |-> FALSE,
        remainingAttempts |-> MAX_ATTEMPTS - failedAttempts]

\* a variant of verifyPassword that keeps the count after a right password
verifyPasswordKeepingCount(password) ==
  /\ Len(lock.history) < MaxCalls
  /\ lock' =
       IF hashPassword(password) = lock.config.passwordHash
       THEN saved([lock.config EXCEPT !.lastFailedAttempt = <<>>], [success |-> TRUE], "verified")
       ELSE saved([lock.config EXCEPT !.failedAttempts = @ + 1,
                                      !.lastFailedAttempt = <<now>>],
                  wrongPassword(lock.config.failedAttempts + 1), "failed")
  /\ UNCHANGED <<credentialState, dom, toMain, toRenderer, received, authPending, fills,
                 reports, page, storeVars, blockVars>>

\* verifyPassword(password)
verifyPassword(password) ==
  /\ Len(lock.history) < MaxCalls
  /\ lock' =
       IF hashPassword(password) = lock.config.passwordHash
       THEN saved([lock.config EXCEPT !.failedAttempts = 0, !.lastFailedAttempt = <<>>],
                  [success |-> TRUE], "verified")
       ELSE saved([lock.config EXCEPT !.failedAttempts = @ + 1,
                                      !.lastFailedAttempt = <<now>>],
                  wrongPassword(lock.config.failedAttempts + 1), "failed")
  /\ UNCHANGED <<credentialState, dom, toMain, toRenderer, received, authPending, fills,
                 reports, page, storeVars, blockVars>>

\* a variant of changePassword that counts a wrong current password as a failed attempt
changePasswordCounting(currentPassword, newPassword) ==
  /\ Len(lock.history) < MaxCalls
  /\ lock' =
       IF hashPassword(currentPassword) # lock.config.passwordHash
       THEN saved([lock.config EXCEPT !.failedAttempts = @ + 1],
                  [success |-> FALSE, error |-> "Current password is incorrect"],
                  "rejected")
       ELSE IF newPassword = "" \/ Len(newPassword) < 4
       THEN [lock EXCEPT !.result = [success |-> FALSE,
                                     error |-> "New password must be at least 4 characters"],
                         !.history = Append(@, "rejected")]
       ELSE saved([passwordHash |-> hashPassword(newPassword), failedAttempts |-> 0,
                   lastFailedAttempt |-> <<>>],
                  [success |-> TRUE], "changed")
  /\ UNCHANGED <<credentialState, dom, toMain, toRenderer, received, authPending, fills,
                 reports, page, storeVars, blockVars>>

\* changePassword(currentPassword, newPassword)
changePassword(currentPassword, newPassword) ==
  /\ Len(lock.history) < MaxCalls
  /\ lock' =
       IF hashPassword(currentPassword) # lock.config.passwordHash
       THEN [lock EXCEPT !.result = [success |-> FALSE,
                                     error |-> "Current password is incorrect"],
                         !.history = Append(@, "rejected")]
       ELSE IF newPassword = "" \/ Len(newPassword) < 4
       THEN [lock EXCEPT !.result = [success |-> FALSE,
                                     error |-> "New password must be at least 4 characters"],
                         !.history = Append(@, "rejected")]
       ELSE saved([passwordHash |-> hashPassword(newPassword), failedAttempts |-> 0,
                   lastFailedAttempt |-> <<>>],
                  [success |-> TRUE], "changed")
  /\ UNCHANGED <<credentialState, dom, toMain, toRenderer, received, authPending, fills,
                 reports, page, storeVars, blockVars>>

\* resetAttempts()
resetAttempts ==
  /\ Len(lock.history) < MaxCalls
  /\ lock' = saved([lock.config EXCEPT !.failedAttempts = 0, !.lastFailedAttempt = <<>>],
                   lock.result, "reset")
  /\ UNCHANGED <<credentialState, dom, toMain, toRenderer, received, authPending, fills,
                 reports, page, storeVars, blockVars>>

\* resetToDefault()
resetToDefault ==
  /\ Len(lock.history) < MaxCalls
  /\ lock' = saved(defaultConfig, lock.result, "reset")
  /\ UNCHANGED <<credentialState, dom, toMain, toRenderer, received, authPending, fills,
                 reports, page, storeVars, blockVars>>

\* the main process starts again: new PasswordProtection on the profile
restartLocked ==
  /\ Len(lock.history) < MaxCalls
  /\ lock' = [newPasswordProtection(lock.file) EXCEPT
                !.history = Append(lock.history, "started"), !.result = lock.result]
  /\ UNCHANGED <<credentialState, dom, toMain, toRenderer, received, authPending, fills,
                 reports, page, storeVars, blockVars>>

\* the lock during several runs of the program
NextLock ==
  \/ \E password \in LockPasswords : verifyPassword(password)
  \/ \E currentPassword, newPassword \in LockPasswords :
       changePassword(currentPassword, newPassword)
  \/ resetAttempts
  \/ resetToDefault
  \/ restartLocked
  \/ Tick

(***************************************************************************)
(* The window (renderer process): the save and update prompts.  Messages   *)
(* sent with ipcRenderer.send, ipcRenderer.invoke and webContents.send     *)
(* arrive in the order in which they were sent.  The handlers of the main  *)
(* process for the credential-* channels are stated as the specification   *)
(* of the CredentialController describes them.                             *)
(***************************************************************************)
\* credentialState.pendingCredential = null
NoCredential == [url |-> "", username |-> "", password |-> ""]

\* the data of a yarvix-credential-submit report of a page
Submissions ==
  {[url |-> url, username |-> username, password |-> password] :
     url \in {"https://example.com/login", "http://other.test:8080/"},
     username \in {"alice", ""},
     password \in {"p1", "p2"}}

\* an ipc message
Message(channel, data) == [data |-> data, channel |-> channel]

\* the state all handlers of the prompts leave alone
promptFrame == UNCHANGED <<authPending, fills, page, lock, blockVars>>

\* handleCredentialSubmit(data)
handleCredentialSubmit(data) ==
  /\ reports < MaxReports
  /\ reports' = reports + 1
  /\ IF data.url = "" \/ data.username = "" \/ data.password = ""
     THEN UNCHANGED <<credentialState, toMain>>
     ELSE /\ toMain' = Append(toMain, Message("credential-check", data))
          /\ credentialState' = [credentialState EXCEPT !.pendingCredential = data]
  /\ UNCHANGED <<dom, toRenderer, received, storeVars>>
  /\ promptFrame

\* showCredentialSavePrompt and showCredentialUpdatePrompt: the element loses the
\* class hidden, the timer in credentialState.promptTimeout is replaced by one
\* that will call `callback`.  The window of the model remembers the submission
\* whose check result shows the prompt, which the program does not read.
showPrompt(element, callback) ==
  /\ dom' = [dom EXCEPT !.hidden = @ \ {element},
                        !.shownFor[element] = Head(toRenderer).data.checked]
  /\ credentialState' = [credentialState EXCEPT !.promptTimeout = callback]

showCredentialSavePrompt == showPrompt("credential-prompt", "hideCredentialPrompt")

showCredentialUpdatePrompt ==
  showPrompt("credential-update-prompt", "hideCredentialUpdatePrompt")

\* hideCredentialPrompt and hideCredentialUpdatePrompt
hidePrompt(element) ==
  /\ dom' = [dom EXCEPT !.hidden = @ \cup {element}]
  /\ credentialState' = [credentialState EXCEPT !.promptTimeout = "none",
                                                !.pendingCredential = NoCredential]

hideCredentialPrompt == hidePrompt("credential-prompt")

hideCredentialUpdatePrompt == hidePrompt("credential-update-prompt")

\* a variant that does not read shouldPrompt
onCredentialCheckResultUngated(data) ==
  IF credentialState.pendingCredential = NoCredential THEN UNCHANGED <<credentialState, dom>>
  ELSE IF data.status = "same"
  THEN /\ credentialState' = [credentialState EXCEPT !.pendingCredential = NoCredential]
       /\ UNCHANGED dom
  ELSE IF data.status = "different" THEN showCredentialUpdatePrompt
  ELSE showCredentialSavePrompt

\* the listener of credential-check-result
onCredentialCheckResult(data) ==
  IF credentialState.pendingCredential = NoCredential THEN UNCHANGED <<credentialState, dom>>
  ELSE IF ~data.shouldPrompt \/ data.status = "same"
  THEN /\ credentialState' = [credentialState EXCEPT !.pendingCredential = NoCredential]
       /\ UNCHANGED dom
  ELSE IF data.status = "different" THEN showCredentialUpdatePrompt
  ELSE showCredentialSavePrompt

\* the window receives a credential-check-result message
credentialCheckResult ==
  /\ toRenderer # <<>>
  /\ Head(toRenderer).channel = "credential-check-result"
  /\ toRenderer' = Tail(toRenderer)
  /\ received' = Head(toRenderer)
  /\ onCredentialCheckResult(Head(toRenderer).data)
  /\ UNCHANGED <<toMain, reports, storeVars>>
  /\ promptFrame

\* a click on a button of the element `element`, which the user can reach only
\* while the element is shown
click(element, listener) ==
  /\ element \notin dom.hidden
  /\ listener
  /\ UNCHANGED <<toRenderer, received, reports, storeVars>>
  /\ promptFrame

\* the Save and Update buttons: send credential-save for the pending credential
sendAndHide(message, element) ==
  IF credentialState.pendingCredential # NoCredential
  THEN toMain' = Append(toMain, message) /\ hidePrompt(element)
  ELSE UNCHANGED <<toMain, credentialState, dom>>

\* a variant of the Dismiss button that saves what is pending
credentialDismissBtnSaving ==
  click("credential-prompt",
        sendAndHide(Message("credential-save", credentialState.pendingCredential),
                    "credential-prompt"))

credentialSaveBtn ==
  click("credential-prompt",
        sendAndHide(Message("credential-save", credentialState.pendingCredential),
                    "credential-prompt"))

credentialNeverBtn ==
  click("credential-prompt",
        sendAndHide(Message("credential-never-save",
                            [NoCredential EXCEPT !.url = credentialState.pendingCredential.url]),
                    "credential-prompt"))

credentialDismissBtn ==
  click("credential-prompt", hideCredentialPrompt /\ UNCHANGED toMain)

credentialUpdateBtn ==
  click("credential-update-prompt",
        sendAndHide(Message("credential-save", credentialState.pendingCredential),
                    "credential-update-prompt"))

credentialUpdateDismissBtn ==
  click("credential-update-prompt", hideCredentialUpdatePrompt /\ UNCHANGED toMain)

\* the timer of credentialState.promptTimeout expires
promptTimeout ==
  /\ credentialState.promptTimeout # "none"
  /\ IF credentialState.promptTimeout = "hideCredentialPrompt"
     THEN hideCredentialPrompt ELSE hideCredentialUpdatePrompt
  /\ UNCHANGED <<toMain, toRenderer, received, reports, storeVars>>
  /\ promptFrame

\* the main process takes the next message of the window, sent on `channel`
ipcMainOn(channel, handler) ==
  /\ toMain # <<>>
  /\ Head(toMain).channel = channel
  /\ toMain' = Tail(toMain)
  /\ handler
  /\ UNCHANGED <<credentialState, dom, received, reports>>
  /\ promptFrame

\* the answer to credential-check: shouldPrompt(origin), and checkExisting; the
\* message of the model names the submission it answers, which the listener of the
\* window does not read
checkAnswer(data) ==
  [status |-> checkExistingCredential(data.url, data.username, data.password).status,
   checked |-> data,
   shouldPrompt |-> shouldPromptSave(data.url)]

ipcCredentialCheck ==
  ipcMainOn("credential-check",
            /\ toRenderer' = Append(toRenderer, Message("credential-check-result",
                                                        checkAnswer(Head(toMain).data)))
            /\ UNCHANGED storeVars)

\* credential-save: CredentialStore.save
ipcCredentialSave ==
  ipcMainOn("credential-save",
            /\ saveCredential(Head(toMain).data.url, Head(toMain).data.username,
                              Head(toMain).data.password)
            /\ UNCHANGED toRenderer)

\* credential-never-save: markNeverSave(origin)
ipcCredentialNeverSave ==
  ipcMainOn("credential-never-save",
            neverSaveForSite(Head(toMain).data.url) /\ UNCHANGED toRenderer)

\* the window after DOMContentLoaded: nothing pending, every prompt hidden
InitWindow ==
  /\ credentialState =
       [pendingCredential |-> NoCredential, promptTimeout |-> "none",
        autofillCredentials |-> <<>>, pendingAutofillPosition |-> Null,
        pendingAutofillWebview |-> 0, pendingAutofillUrl |-> Null,
        dropdownClicked |-> FALSE]
  /\ dom = [hidden |-> {"credential-prompt", "credential-update-prompt", "autofill-dropdown"},
            shownFor |-> [element \in {"credential-prompt", "credential-update-prompt"}
                            |-> NoCredential], autofillList |-> <<>>,
            blurTimers |-> <<>>]
  /\ toMain = <<>>
  /\ toRenderer = <<>>
  /\ received = Message("", NoCredential)
  /\ authPending = <<>>
  /\ fills = <<>>
  /\ reports = 0
  /\ page = [submitted |-> 0, clickTimers |-> <<>>, log |-> <<>>]
  /\ lock = newPasswordProtection(NoFile)

NextPrompt ==
  \/ \E data \in Submissions : handleCredentialSubmit(data)
  \/ credentialCheckResult
  \/ credentialSaveBtn
  \/ credentialNeverBtn
  \/ credentialDismissBtn
  \/ credentialUpdateBtn
  \/ credentialUpdateDismissBtn
  \/ promptTimeout
  \/ ipcCredentialCheck
  \/ ipcCredentialSave
  \/ ipcCredentialNeverSave

(***************************************************************************)
(* The page: the FormDetector of the script injected into a page with a    *)
(* login form.                                                             *)
(***************************************************************************)
RECURSIVE trim(_)
\* String.prototype.trim on the strings of the model, whose white space is the space
trim(s) ==
  IF Len(s) > 0 /\ SubSeq(s, 1, 1) = " " THEN trim(SubSeq(s, 2, Len(s)))
  ELSE IF Len(s) > 0 /\ SubSeq(s, Len(s), Len(s)) = " " THEN trim(SubSeq(s, 1, Len(s) - 1))
  ELSE s

\* the delay of the timer the click listener of a submit button starts, in ms
ClickDelay == 100

\* what the user has typed into the username and the password field
FieldValues ==
  {[username |-> username, password |-> password] :
     username \in {"alice", " alice", ""}, password \in {"p1", ""}}

\* the ways to submit a login form
Gestures == {"enter", "button"}

\* the listeners of setupFormListeners that one submission of the form runs, in the
\* order of the events: Enter in the password field is a keydown there and, in a
\* form element, the implicit submission (a click event at the default button, if
\* there is one, and the submit event); a click on a submit button is that click
\* and, in a form element, the submit event.  A virtual form has no submit listener.
listenersRun(gesture, isVirtual, hasButton) ==
  (IF gesture = "enter" THEN <<"keydown">> ELSE <<>>)
    \o (IF gesture = "button" \/ (hasButton /\ ~isVirtual) THEN <<"click">> ELSE <<>>)
    \o (IF ~isVirtual THEN <<"submit">> ELSE <<>>)

\* handleFormSubmit(usernameField, passwordField): the console messages logged so
\* far, the call being made `after` ms after the submission `submission`
handleFormSubmit(log, fields, submission, after) ==
  IF trim(fields.username) = "" \/ fields.password = "" THEN log
  ELSE Append(log, [username |-> trim(fields.username), password |-> fields.password,
                    type |-> "yarvix-credential-submit", submission |-> submission, after |-> after])

RECURSIVE dispatched(_, _, _, _)
\* the page after the listeners `listeners` have run for the submission `submission`
dispatched(state, listeners, fields, submission) ==
  IF listeners = <<>> THEN state
  ELSE dispatched(
         IF Head(listeners) = "click"
         THEN [state EXCEPT !.clickTimers =
                 Append(@, [fields |-> fields, submission |-> submission])]
         ELSE [state EXCEPT !.log = handleFormSubmit(@, fields, submission, 0)],
         Tail(listeners), fields, submission)

\* the state the page's steps leave alone
pageFrame ==
  UNCHANGED <<credentialState, dom, toMain, toRenderer, received, authPending, fills,
              reports, lock, storeVars, blockVars>>

\* the user submits the login form once
submitLoginForm(fields, gesture, isVirtual, hasButton) ==
  /\ page.submitted < MaxSubmits
  /\ page' = dispatched([page EXCEPT !.submitted = @ + 1],
                        listenersRun(gesture, isVirtual, hasButton), fields,
                        page.submitted + 1)
  /\ pageFrame

\* the timer of a click listener fires
clickTimeout ==
  /\ page.clickTimers # <<>>
  /\ page' = [page EXCEPT !.clickTimers = Tail(@),
                          !.log = handleFormSubmit(@, Head(page.clickTimers).fields,
                                                   Head(page.clickTimers).submission,
                                                   ClickDelay)]
  /\ pageFrame

NextPage ==
  \/ \E fields \in FieldValues, gesture \in Gestures, isVirtual \in BOOLEAN, hasButton \in BOOLEAN :
       submitLoginForm(fields, gesture, isVirtual, hasButton)
  \/ clickTimeout

\* the prompts while the user takes no action on them
NextUnattended ==
  \/ \E data \in Submissions : handleCredentialSubmit(data)
  \/ ipcCredentialCheck
  \/ credentialCheckResult
  \/ promptTimeout

(***************************************************************************)
(* The window: the autofill dropdown and the fill after re-authentication. *)
(***************************************************************************)
\* the webviews of the window's tabs, each named by the id of its tab
Webviews == TabIds

\* webview.getURL() of the pages the tabs show
getURL(webview) ==
  IF webview = 1 THEN "https://example.com/login" ELSE "http://other.test:8080/"

\* tabManager.getActiveWebview(): the webview of the active tab, 0 when the tab list
\* holds no tab with the id activeTabId
getActiveWebview == IF tabs.active \in tabs.open THEN tabs.active ELSE 0

\* the data of a yarvix-autofill-focus report of a page
FocusReports ==
  {[url |-> url, position |-> "below the field"] :
     url \in {"https://example.com/login", "http://other.test:8080/"}}

\* the state all handlers of the autofill flow leave alone
autofillFrame == UNCHANGED <<storeVars, blockVars, page, lock>>

\* handleAutofillFocus(data, webview)
handleAutofillFocus(data, webview) ==
  /\ reports < MaxReports
  /\ reports' = reports + 1
  /\ credentialState' = [credentialState EXCEPT !.pendingAutofillPosition = data.position,
                                                !.pendingAutofillWebview = webview,
                                                !.pendingAutofillUrl = data.url]
  /\ toMain' = Append(toMain, Message("credential-get-for-autofill",
                                      [NoCredential EXCEPT !.url = data.url]))
  /\ UNCHANGED <<dom, toRenderer, received, authPending, fills>>
  /\ autofillFrame

\* handleLoginFormDetected(data)
handleLoginFormDetected(data) ==
  /\ reports < MaxReports
  /\ reports' = reports + 1
  /\ toMain' = Append(toMain, Message("credential-get-for-autofill",
                                      [NoCredential EXCEPT !.url = data.url]))
  /\ UNCHANGED <<credentialState, dom, toRenderer, received, authPending, fills>>
  /\ autofillFrame

\* the display list of an origin: the records of getCredentials without their secrets
displayList(credentials) ==
  [i \in DOMAIN credentials |->
     [username |-> credentials[i].username,
      origin |-> credentials[i].origin,
      displayName |-> credentials[i].displayName]]

\* credential-get-for-autofill: the answer is credential-autofill-list
ipcCredentialGetForAutofill ==
  /\ toMain # <<>>
  /\ Head(toMain).channel = "credential-get-for-autofill"
  /\ toMain' = Tail(toMain)
  /\ toRenderer' = Append(toRenderer,
                          Message("credential-autofill-list",
                                  [credentials |-> displayList(getCredentials(Head(toMain).data.url))]))
  /\ UNCHANGED <<credentialState, dom, received, authPending, fills, reports>>
  /\ autofillFrame

\* credentialState after hideAutofillDropdown
pendingAutofillCleared(state) ==
  [state EXCEPT !.pendingAutofillPosition = Null,
                !.pendingAutofillWebview = 0,
                !.pendingAutofillUrl = Null]

\* the window after dropdown.classList.add('hidden')
dropdownHidden(window) == [window EXCEPT !.hidden = @ \cup {"autofill-dropdown"}]

\* hideAutofillDropdown, in the credentialState `state` and the window `window`
hideAutofillDropdownIn(state, window) ==
  /\ dom' = dropdownHidden(window)
  /\ credentialState' = pendingAutofillCleared(state)

\* hideAutofillDropdown, in the credentialState `state`
hideAutofillDropdown(state) == hideAutofillDropdownIn(state, dom)

\* showAutofillDropdownAt(credentials, x, y, minWidth) of a list that is not empty
showAutofillDropdownAt(credentials) ==
  /\ credentialState' = [credentialState EXCEPT !.autofillCredentials = credentials]
  /\ dom' = [dom EXCEPT !.hidden = @ \ {"autofill-dropdown"}, !.autofillList = credentials]

\* the listener of credential-autofill-list
onCredentialAutofillList(data) ==
  IF data.credentials # <<>>
  THEN IF credentialState.pendingAutofillPosition # Null
          /\ credentialState.pendingAutofillWebview # 0
       THEN showAutofillDropdownAt(data.credentials)
       ELSE /\ credentialState' =
                 [credentialState EXCEPT !.autofillCredentials = data.credentials]
            /\ UNCHANGED dom
  ELSE hideAutofillDropdown(credentialState)

\* the window receives a credential-autofill-list message
credentialAutofillList ==
  /\ toRenderer # <<>>
  /\ Head(toRenderer).channel = "credential-autofill-list"
  /\ toRenderer' = Tail(toRenderer)
  /\ received' = Head(toRenderer)
  /\ onCredentialAutofillList(Head(toRenderer).data)
  /\ UNCHANGED <<toMain, authPending, fills, reports>>
  /\ autofillFrame

\* performAutofill(username, url) up to its await: the request for the secret, which
\* carries the webview the call has picked
performAutofill(username, url, webview) ==
  IF webview = 0 THEN UNCHANGED toMain
  ELSE toMain' = Append(toMain,
                        Message("credential-autofill-with-auth",
                                [url |-> IF url # "" THEN url
                                         ELSE credentialState.pendingAutofillUrl,
                                 username |-> username, webview |-> webview]))

\* the window once the dropdown is clicked: the click falls into the delay of every
\* blur timer that runs
clickedDuring(window) ==
  [window EXCEPT !.blurTimers = [i \in DOMAIN @ |-> TRUE]]

\* a click on item `index` of the dropdown: mousedown on the dropdown, then the
\* click listener of the item
autofillItemClick(index) ==
  /\ "autofill-dropdown" \notin dom.hidden
  /\ index \in DOMAIN dom.autofillList
  /\ IF index \in DOMAIN credentialState.autofillCredentials
     THEN /\ hideAutofillDropdownIn([credentialState EXCEPT !.dropdownClicked = TRUE],
                                    clickedDuring(dom))
          /\ performAutofill(credentialState.autofillCredentials[index].username,
                             credentialState.autofillCredentials[index].origin,
                             getActiveWebview)
     ELSE /\ credentialState' = [credentialState EXCEPT !.dropdownClicked = TRUE]
          /\ dom' = clickedDuring(dom)
          /\ UNCHANGED toMain
  /\ UNCHANGED <<toRenderer, received, authPending, fills, reports>>
  /\ autofillFrame

\* credential-autofill-with-auth: the main process asks the user to authenticate
ipcCredentialAutofillWithAuth ==
  /\ toMain # <<>>
  /\ Head(toMain).channel = "credential-autofill-with-auth"
  /\ toMain' = Tail(toMain)
  /\ authPending' = Append(authPending, Head(toMain).data)
  /\ UNCHANGED <<credentialState, dom, toRenderer, received, fills, reports>>
  /\ autofillFrame

\* the secret getForAutofill holds for the username of the request, "" when none
secretFor(credentials, i) == IF i = 0 THEN "" ELSE credentials[i].password

\* the answer to credential-autofill-with-auth once authenticate() has ended with
\* `outcome`: the one matching secret after a success, no secret otherwise
autofillAnswer(request, outcome, secret) ==
  [auth |-> outcome,
   username |-> request.username,
   password |-> IF outcome = "success" THEN secret ELSE "",
   success |-> outcome = "success" /\ secret # "",
   cancelled |-> outcome = "cancelled",
   error |-> IF outcome = "failed" THEN "Authentication failed"
             ELSE IF outcome = "success" /\ secret = "" THEN "Credential not found"
             ELSE "",
   webview |-> request.webview]

\* authenticate() of the oldest request ends with `outcome`
authenticate(outcome) ==
  /\ authPending # <<>>
  /\ authPending' = Tail(authPending)
  /\ toRenderer' =
       Append(toRenderer,
              Message("credential-autofill-with-auth",
                      autofillAnswer(Head(authPending), outcome,
                                     secretFor(getCredentials(Head(authPending).url),
                                               findIndexByUsername(
                                                 getCredentials(Head(authPending).url),
                                                 Head(authPending).username)))))
  /\ UNCHANGED <<credentialState, dom, toMain, received, fills, reports>>
  /\ autofillFrame

\* what webview.executeJavaScript runs in the page: window.__yarvixAutofill
Fill(result) ==
  [username |-> result.username, password |-> result.password, webview |-> result.webview]

\* a variant that fills whatever the result says
filledUnchecked(result) == Append(fills, Fill(result))

\* performAutofill after its await: the fills after the result has arrived
filled(result) == IF result.success THEN Append(fills, Fill(result)) ELSE fills

\* a call of performAutofill receives the result it awaits
performAutofillResumes ==
  /\ toRenderer # <<>>
  /\ Head(toRenderer).channel = "credential-autofill-with-auth"
  /\ toRenderer' = Tail(toRenderer)
  /\ received' = Head(toRenderer)
  /\ fills' = filled(Head(toRenderer).data)
  /\ UNCHANGED <<credentialState, dom, toMain, authPending, reports>>
  /\ autofillFrame

\* handleAutofillBlur: a yarvix-autofill-blur report of a page starts a timer of
\* 200 ms
handleAutofillBlur ==
  /\ reports < MaxReports
  /\ reports' = reports + 1
  /\ dom' = [dom EXCEPT !.blurTimers = Append(@, FALSE)]
  /\ UNCHANGED <<credentialState, toMain, toRenderer, received, authPending, fills>>
  /\ autofillFrame

\* a variant whose timer also drops the requests of the window that are in flight
autofillBlurTimeoutCancelling ==
  /\ dom.blurTimers # <<>>
  /\ IF ~credentialState.dropdownClicked
     THEN /\ dom' = dropdownHidden([dom EXCEPT !.blurTimers = Tail(@)])
          /\ credentialState' = pendingAutofillCleared(credentialState)
     ELSE /\ dom' = [dom EXCEPT !.blurTimers = Tail(@)]
          /\ credentialState' = [credentialState EXCEPT !.dropdownClicked = FALSE]
  /\ toMain' = <<>>
  /\ UNCHANGED <<toRenderer, received, authPending, fills, reports>>
  /\ autofillFrame

\* a timer of handleAutofillBlur fires
autofillBlurTimeout ==
  /\ dom.blurTimers # <<>>
  /\ IF ~credentialState.dropdownClicked
     THEN /\ dom' = dropdownHidden([dom EXCEPT !.blurTimers = Tail(@)])
          /\ credentialState' = pendingAutofillCleared(credentialState)
     ELSE /\ dom' = [dom EXCEPT !.blurTimers = Tail(@)]
          /\ credentialState' = [credentialState EXCEPT !.dropdownClicked = FALSE]
  /\ UNCHANGED <<toMain, toRenderer, received, authPending, fills, reports>>
  /\ autofillFrame

\* the autofill dropdown of one page: focus and blur reports, clicks on items and
\* the re-authentication they start
NextDropdown ==
  \/ \E data \in FocusReports : handleAutofillFocus(data, getActiveWebview)
  \/ handleAutofillBlur
  \/ autofillBlurTimeout
  \/ ipcCredentialGetForAutofill
  \/ credentialAutofillList
  \/ \E index \in 1..2 : autofillItemClick(index)
  \/ ipcCredentialAutofillWithAuth
  \/ \E outcome \in {"success", "cancelled", "failed"} : authenticate(outcome)
  \/ performAutofillResumes

\* the credentials an earlier run of the program has saved
SavedCredentials ==
  <<[key |-> "https://example.com",
     value |-> <<Record("alice", "p1", 0, 0), Record("bob", "p2", 0, 0)>>]>>

\* the constructor on a profile directory that holds SavedCredentials
InitSaved ==
  /\ credentialsCache = SavedCredentials
  /\ neverSaveSites = {}
  /\ useOSStorage = TRUE
  /\ credentialsFile =
       [exists |-> TRUE,
        data |-> [key |-> "", text |-> JSONstringify(SavedCredentials), iv |-> "",
                  mech |-> "safeStorage"]]
  /\ neverSaveFile = NoFile
  /\ encryptionKeyFile = NoFile
  /\ now = 1
  /\ faulty = FALSE
  /\ opCount = 0
  /\ lastCall = Call("", "", "", "", FALSE, "")

\* the report of a focused password field that the page of `webview` logs
focusReport(webview) == [url |-> getURL(webview), position |-> "below the field"]

\* the autofill flow of a window with several tabs: the pages of all tabs report,
\* the user switches tabs by the keyboard (which clicks nothing), clicks items of the
\* dropdown and authenticates
NextFill ==
  \/ \E webview \in Webviews : handleAutofillFocus(focusReport(webview), webview)
  \/ \E webview \in Webviews : handleLoginFormDetected(focusReport(webview))
  \/ \E tabId \in TabIds : switchTab(tabId)
  \/ ipcCredentialGetForAutofill
  \/ credentialAutofillList
  \/ \E index \in 1..2 : autofillItemClick(index)
  \/ ipcCredentialAutofillWithAuth
  \/ \E outcome \in {"success", "cancelled", "failed"} : authenticate(outcome)
  \/ performAutofillResumes

NextAutofill ==
  \/ \E webview \in Webviews : handleAutofillFocus(focusReport(webview), webview)
  \/ \E data \in FocusReports : handleLoginFormDetected(data)
  \/ ipcCredentialGetForAutofill
  \/ credentialAutofillList
  \/ \E index \in 1..2 : autofillItemClick(index)
  \/ ipcCredentialAutofillWithAuth
  \/ \E outcome \in {"success", "cancelled", "failed"} : authenticate(outcome)
  \/ performAutofillResumes
  \/ \E username \in Usernames :
       deleteCredential("https://example.com/login", username) /\ UNCHANGED uiVars

(***************************************************************************)
(* CredentialManager: the start on a profile directory that holds files.   *)
(***************************************************************************)
\* what _decrypt returns when it returns null
NoText == [null |-> TRUE]

\* !decrypted: null, or the empty string
isFalsy(text) == text = NoText \/ text = [raw |-> ""]

\* whether JSON.parse accepts the text
isJSON(text) == "json" \in DOMAIN text

\* the AES-256-GCM branch of _decrypt under the key k: null when the key cannot be
\* read, when the blob was not sealed under it, or when the bytes were altered
_decryptWithKey(encryptedData, k) ==
  IF ~k.threw /\ encryptedData.mech = "aes-256-gcm" /\ encryptedData.key = k.key
  THEN [text |-> encryptedData.text, keyFile |-> k.keyFile]
  ELSE [text |-> NoText, keyFile |-> k.keyFile]

\* _decrypt: [text, keyFile]
_decrypt(encryptedData, os, keyFile, osOutcome, fsOutcome, fresh) ==
  IF os /\ osOutcome = "ok" /\ encryptedData.mech = "safeStorage"
  THEN [text |-> encryptedData.text, keyFile |-> keyFile]
  ELSE _decryptWithKey(encryptedData, _getEncryptionKey(keyFile, fresh, fsOutcome))

\* the call of _decrypt in _loadCredentials, which is reached when the file exists
\* and was read
decrypted(file, os, keyFile, readOutcome, osOutcome, fsOutcome, fresh) ==
  IF ~file.exists \/ readOutcome = "throws" THEN [text |-> NoText, keyFile |-> keyFile]
  ELSE _decrypt(file.data, os, keyFile, osOutcome, fsOutcome, fresh)

\* the body of the try block of _loadCredentials: [cache, threw]
loadCredentialsTry(file, text, readOutcome) ==
  IF ~file.exists THEN [threw |-> FALSE, cache |-> <<>>]
  ELSE IF readOutcome = "throws" THEN [threw |-> TRUE, cache |-> <<>>]
  ELSE IF isFalsy(text) THEN [threw |-> FALSE, cache |-> <<>>]
  ELSE IF ~isJSON(text) THEN [threw |-> TRUE, cache |-> <<>>]
  ELSE [threw |-> FALSE, cache |-> setEntries(<<>>, JSONparse(text))]

\* a variant without the catch block
_loadCredentialsUncaught(file, text, readOutcome) ==
  loadCredentialsTry(file, text, readOutcome)

\* _loadCredentials: the catch block logs the error
_loadCredentials(file, text, readOutcome) ==
  [loadCredentialsTry(file, text, readOutcome) EXCEPT !.threw = FALSE]

\* _loadNeverSaveSites
_loadNeverSaveSites(file) ==
  IF file.exists /\ isJSON(file.data) THEN JSONparse(file.data) ELSE {}

\* the fields after _initialize, given what _decrypt and _loadCredentials returned
initialized(os, d, load) ==
  /\ useOSStorage' = os
  /\ neverSaveSites' = _loadNeverSaveSites(neverSaveFile)
  /\ credentialsCache' = load.cache
  /\ encryptionKeyFile' = d.keyFile
  /\ lastCall' = Call("_initialize", "", "", "", ~load.threw, "")
  /\ UNCHANGED <<credentialsFile, neverSaveFile, now, faulty, opCount, blockVars, uiVars>>

initializedFrom(os, d, readOutcome) ==
  initialized(os, d, _loadCredentials(credentialsFile, d.text, readOutcome))

\* the program starts again: new CredentialManager(userDataPath), which calls
\* _initialize
_initialize ==
  \E available \in BOOLEAN, availableOutcome \in Outcomes, readOutcome \in Outcomes,
     osOutcome \in Outcomes, fsOutcome \in Outcomes, fresh \in Keys :
    initializedFrom(available /\ availableOutcome = "ok",
                    decrypted(credentialsFile, available /\ availableOutcome = "ok",
                              encryptionKeyFile, readOutcome, osOutcome, fsOutcome, fresh),
                    readOutcome)

\* what damage does to a blob: bytes altered, so that no cipher authenticates it,
\* or a sealed text that is not JSON, or a sealed empty text
DamagedBlobs(blob) ==
  {[blob EXCEPT !.mech = "damaged"],
   [blob EXCEPT !.text = [raw |-> "{"]],
   [blob EXCEPT !.text = [raw |-> ""]]}

\* outside the program: credentials.enc is damaged while the program is not running
damageCredentialsFile ==
  /\ credentialsFile.exists
  /\ \E blob \in DamagedBlobs(credentialsFile.data) :
       credentialsFile' = [exists |-> TRUE, data |-> blob]
  /\ UNCHANGED <<credentialsCache, neverSaveSites, useOSStorage, neverSaveFile,
                 encryptionKeyFile, now, faulty, opCount, lastCall, blockVars, uiVars>>

\* outside the program: .credential-key is replaced by another key
replaceEncryptionKey ==
  /\ encryptionKeyFile.exists
  /\ encryptionKeyFile' = [exists |-> TRUE, data |-> "key0"]
  /\ UNCHANGED <<credentialsCache, neverSaveSites, useOSStorage, credentialsFile,
                 neverSaveFile, now, faulty, opCount, lastCall, blockVars, uiVars>>

\* the constructor on a fresh profile directory, on a platform whose calls may throw
InitLoad ==
  /\ credentialsCache = <<>>
  /\ neverSaveSites = {}
  /\ useOSStorage \in BOOLEAN
  /\ credentialsFile = NoFile
  /\ neverSaveFile = NoFile
  /\ encryptionKeyFile = NoFile
  /\ now = 0
  /\ faulty \in BOOLEAN
  /\ opCount = 0
  /\ lastCall = Call("", "", "", "", FALSE, "")

NextLoad ==
  \/ \E url \in OriginUrls, password \in Passwords :
       saveCredential(url, "alice", password) /\ UNCHANGED uiVars
  \/ neverSaveForSite("https://example.com") /\ UNCHANGED uiVars
  \/ damageCredentialsFile
  \/ replaceEncryptionKey
  \/ _initialize

(***************************************************************************)
(* Specifications.                                                         *)
(***************************************************************************)
Init == InitStore /\ InitBlock /\ InitWindow
Next == NextStore

\* the credential manager during one lifetime of the main process
Spec == Init /\ [][Next]_vars

InitBlockOnly == InitStore /\ useOSStorage /\ InitBlock /\ InitWindow

\* the ad blocker during one lifetime of the main process
SpecBlock == InitBlockOnly /\ [][NextBlock]_vars

InitSettings == InitStore /\ useOSStorage /\ blockerRunning /\ InitWindow

\* the ad blocker while the window opens and closes tabs
SpecTabs == InitBlockOnly /\ [][NextTabs]_vars

\* the ad blocker and its stored settings over several lifetimes of the main process
SpecSettings == InitSettings /\ [][NextSettings]_vars

\* the ad blocker asked about the hosts of its domain blocklist
SpecDomains == InitBlockOnly /\ [][NextDomains]_vars

\* saveCredential called by any caller: the arguments may be empty strings
NextSave ==
  \/ \E url \in Urls, username \in Usernames \cup {""}, password \in Passwords \cup {""} :
       saveCredential(url, username, password) /\ UNCHANGED uiVars
  \/ \E url \in Urls, username \in Usernames \cup {""} :
       deleteCredential(url, username) /\ UNCHANGED uiVars
  \/ Tick

SpecSave == Init /\ [][NextSave]_vars

\* the program on a fresh profile directory, on a platform whose calls may throw
InitRestart == InitLoad /\ InitBlock /\ InitWindow

\* the credential manager over restarts of the program, with files damaged in between
SpecLoad == InitRestart /\ [][NextLoad]_vars

\* the window's prompts and the credential manager behind them
SpecPrompt == InitBlockOnly /\ [][NextPrompt]_vars

\* the program on a profile directory that holds saved credentials
InitAutofill == InitSaved /\ InitBlock /\ InitWindow

\* the window's autofill flow on a profile that holds saved credentials
SpecAutofill == InitAutofill /\ [][NextAutofill]_vars

\* the prompts of a window whose user takes no action, on a profile that holds saved
\* credentials: every message is handled and every timer fires
SpecUnattended ==
  /\ InitAutofill
  /\ [][NextUnattended]_vars
  /\ WF_vars(ipcCredentialCheck)
  /\ WF_vars(credentialCheckResult)
  /\ WF_vars(promptTimeout)

\* a page with a login form that the user submits
SpecPage == InitBlockOnly /\ [][NextPage]_vars

\* the autofill dropdown with the blur reports of the page and their timers
SpecDropdown == InitAutofill /\ [][NextDropdown]_vars

\* the autofill flow across the tabs of the window
SpecFill == InitAutofill /\ [][NextFill]_vars

\* the password protection
SpecLock == InitBlockOnly /\ [][NextLock]_vars

(***************************************************************************)
(* Properties of the credential manager.                                   *)
(***************************************************************************)
\* the records the cache holds for a username at an origin
recordsFor(cache, origin, username) ==
  UNION {{<<e, i>> : i \in {j \in DOMAIN cache[e].value : cache[e].value[j].username = username}} :
           e \in {d \in DOMAIN cache : cache[d].key = origin}}

\* no origin holds two records with the same username
UniqueUsernames ==
  \A e \in DOMAIN credentialsCache :
    \A i, j \in DOMAIN credentialsCache[e].value :
      credentialsCache[e].value[i].username = credentialsCache[e].value[j].username => i = j

\* a save leaves exactly one record for its (origin, username), holding its secret
SaveLeavesOneRecord ==
  \A url \in Urls, username \in Usernames, password \in Passwords :
    (saveCredential(url, username, password) /\ _getOrigin(url) # Null) =>
      /\ Cardinality(recordsFor(credentialsCache', _getOrigin(url), username)) = 1
      /\ \A r \in recordsFor(credentialsCache', _getOrigin(url), username) :
           credentialsCache'[r[1]].value[r[2]].password = password

\* C1: after any sequence of saveCredential, deleteCredential, deleteAllForOrigin,
\* updateUsername, importCredentials and clearAllCredentials from an empty store no
\* origin holds two records with the same username, and a save for a pair that
\* already has a record with another secret leaves exactly one record for the
\* pair, holding the secret of the save that arrived last.
C1_UniquePerOriginAndUsername == []UniqueUsernames /\ [][SaveLeavesOneRecord]_vars

\* a second save for a pair arrived with another secret, and one record holds it
C1_Witness ==
  /\ lastCall.op = "saveCredential"
  /\ lastCall.found = "different"
  /\ Cardinality(recordsFor(credentialsCache, _getOrigin(lastCall.url), lastCall.username)) = 1
  /\ checkExistingCredential(lastCall.url, lastCall.username, lastCall.password).status = "same"

\* C2: immediately after saveCredential(origin, username, secret) the result of
\* getCredentials(origin) contains a record with that username and that secret.
C2_SaveThenGet ==
  [][\A url \in Urls, username \in Usernames, password \in Passwords :
       (saveCredential(url, username, password)
        /\ saveCredentialResult(url, username, password)) =>
         \E i \in DOMAIN getCredentials(url)' :
           /\ getCredentials(url)'[i].username = username
           /\ getCredentials(url)'[i].password = password]_vars

\* a save has just returned and getCredentials lists its username with its secret
C2_Witness ==
  /\ lastCall.op = "saveCredential"
  /\ lastCall.url = "HTTPS://Example.COM:443/account"
  /\ lastCall.found = "different"
  /\ \E i \in DOMAIN getCredentials("https://example.com/login") :
       /\ getCredentials("https://example.com/login")[i].username = lastCall.username
       /\ getCredentials("https://example.com/login")[i].password = lastCall.password
       /\ getCredentials("https://example.com/login")[i].origin = "https://example.com"

\* whether the origin of url has a record for username whose secret satisfies Test
hasRecord(url, username, Test(_)) ==
  \E e \in DOMAIN credentialsCache :
    /\ credentialsCache[e].key = _getOrigin(url)
    /\ \E i \in DOMAIN credentialsCache[e].value :
         /\ credentialsCache[e].value[i].username = username
         /\ Test(credentialsCache[e].value[i].password)

\* C3: checkExistingCredential returns 'none' exactly when the origin has no record
\* with that username, 'same' exactly when such a record exists and its secret
\* equals the candidate, and 'different' exactly when such a record exists with
\* another secret.
C3_CheckExisting ==
  \A url \in Urls, username \in Usernames, password \in Passwords :
    /\ checkExistingCredential(url, username, password).status \in {"none", "same", "different"}
    /\ checkExistingCredential(url, username, password).status = "none"
         <=> ~hasRecord(url, username, LAMBDA p : TRUE)
    /\ checkExistingCredential(url, username, password).status = "same"
         <=> hasRecord(url, username, LAMBDA p : p = password)
    /\ checkExistingCredential(url, username, password).status = "different"
         <=> hasRecord(url, username, LAMBDA p : p # password)

\* alice has a record with secret p1 at the origin and bob has none: the three
\* answers are same, different and none
C3_Witness ==
  /\ hasRecord("https://example.com/login", "alice", LAMBDA p : p = "p1")
  /\ checkExistingCredential("https://example.com/login", "alice", "p1").status = "same"
  /\ checkExistingCredential("https://example.com/login", "alice", "p2").status = "different"
  /\ checkExistingCredential("https://example.com/login", "bob", "p1").status = "none"
  /\ checkExistingCredential("https://example.com/login", "bob", "p1").hasOtherUsers

\* a step that is a call of enableSaveForSite for the origin of url
enablesOrigin(url) ==
  \E other \in Urls : _getOrigin(other) = _getOrigin(url) /\ enableSaveForSite(other)

\* C4: once neverSaveForSite has been called for an origin, shouldPromptSave for
\* that origin returns false in every later state until enableSaveForSite is called
\* for that origin, whatever save, delete, import or other calls happen in between:
\* the call leaves the origin refusing the prompt, and a step that is no
\* enableSaveForSite for the origin leaves a refusing origin refusing.
C4_NeverSaveUntilEnabled ==
  [][\A url \in Urls :
       /\ (neverSaveForSite(url) /\ _getOrigin(url) # Null) => ~shouldPromptSave(url)'
       /\ (_getOrigin(url) \in neverSaveSites /\ ~enablesOrigin(url)) =>
            ~shouldPromptSave(url)']_vars

\* the origin was marked, then its credentials were written, and it still refuses
C4_Witness ==
  /\ lastCall.op \in {"saveCredential", "deleteCredential", "deleteAllForOrigin",
                      "importCredentials", "updateUsername", "clearAllCredentials"}
  /\ opCount = MaxOps
  /\ "https://example.com" \in neverSaveSites
  /\ ~shouldPromptSave("https://example.com/login")
  /\ ~shouldPromptSave("HTTPS://Example.COM:443/account")
  /\ shouldPromptSave("http://other.test:8080/")

\* C5 as stated: for every url, shouldPromptSave(url) returns false if and only if
\* the origin derived from url is a member of the never-save set.
C5_AsStated ==
  \A url \in Urls : (~shouldPromptSave(url)) <=> (_getOrigin(url) \in neverSaveSites)

\* C5: for every url from which an origin can be derived, shouldPromptSave(url)
\* returns false if and only if that origin is a member of the never-save set; for
\* a url from which no origin can be derived it returns false.
C5_PromptIffNotMarked ==
  \A url \in Urls :
    IF newURL(url).ok
    THEN (~shouldPromptSave(url)) <=> (_getOrigin(url) \in neverSaveSites)
    ELSE ~shouldPromptSave(url)

\* one origin is marked and refuses, another is not and prompts, and the url
\* without an origin refuses though nothing is marked for it
C5_Witness ==
  /\ neverSaveSites = {"https://example.com"}
  /\ ~shouldPromptSave("https://example.com/login")
  /\ ~shouldPromptSave("HTTPS://Example.COM:443/account")
  /\ shouldPromptSave("http://other.test:8080/")
  /\ ~shouldPromptSave("not a url")
  /\ _getOrigin("not a url") \notin neverSaveSites

\* C6: neverSaveForSite changes only the never-save set: the stored credential
\* records of every origin, the marked origin included, are identical before and
\* after the call.
C6_NeverSaveKeepsCredentials ==
  [][\A url \in Urls :
       neverSaveForSite(url) =>
         /\ credentialsCache' = credentialsCache
         /\ credentialsFile' = credentialsFile]_vars

\* an origin that has saved credentials was just marked, and they are still there
C6_Witness ==
  /\ lastCall.op = "neverSaveForSite"
  /\ _getOrigin(lastCall.url) \in neverSaveSites
  /\ getCredentials(lastCall.url) # <<>>

(***************************************************************************)
(* Properties of the ad blocker.                                           *)
(***************************************************************************)
\* C7 as stated: if hostname H is in the whitelist, no subresource request issued by
\* a page whose URL has hostname H is ever blocked, even when the request URL matches
\* a blocklist domain, a block pattern or a video-ad rule.
C7_AsStated ==
  (/\ response.kind = "request"
   /\ response.request.resourceType # "mainFrame"
   /\ newURL(response.request.page).hostname \in whitelist)
    => ~response.answer

\* C8: whenever the blocker is disabled, shouldBlock returns false for every
\* (request url, page url) input, in every state of the whitelist and counters.
C8_DisabledBlocksNothing ==
  ~enabled => \A url \in RequestUrls, pageUrl \in PageUrls \cup {""} : ~shouldBlock(url, pageUrl)

\* the blocker is disabled after it blocked requests and a site was whitelisted, and
\* a call for a url of a blocklist domain has just answered false
C8_Witness ==
  /\ ~enabled
  /\ stats.sessionBlocked > 0
  /\ whitelist # {}
  /\ response.kind = "shouldBlock"
  /\ response.request.url = "https://doubleclick.net/ads/x.js"
  /\ ~response.answer
  /\ shouldBlockIn(response.request.url, response.request.referrer, TRUE, whitelist,
                   lastIndex).result

\* C9: the request handler never cancels a top-level navigation request (resource
\* type mainFrame), in any state of the enabled flag and the whitelist, even when
\* its url matches a blocklist domain or pattern.
C9_MainFrameNeverCancelled ==
  (response.kind = "request" /\ response.request.resourceType = "mainFrame")
    => ~response.answer

\* the enabled blocker has just let a navigation to a url of a blocklist domain
\* pass, which shouldBlock would block
C9_Witness ==
  /\ enabled
  /\ response.kind = "request"
  /\ response.request.resourceType = "mainFrame"
  /\ response.request.url = "https://doubleclick.net/ads/x.js"
  /\ shouldBlock(response.request.url, response.request.referrer)
  /\ ~response.answer

\* C10: shouldBlock is a function of (url, pageUrl, whitelist, enabled flag): a call
\* in any state, whatever the counters are and whatever was called before, returns
\* what these four inputs determine, and it changes neither the enabled flag, the
\* whitelist nor any counter.
C10_ShouldBlockIsPure ==
  [][\A url \in RequestUrls, pageUrl \in PageUrls \cup {""} :
       shouldBlockCall(url, pageUrl) =>
         /\ response'.answer =
              shouldBlockIn(url, pageUrl, enabled, whitelist,
                            FreshLastIndex(BLOCK_PATTERNS)).result
         /\ UNCHANGED <<enabled, whitelist, stats>>]_vars

\* after requests were blocked and counted, a call has just answered true
C10_Witness ==
  /\ response.kind = "shouldBlock"
  /\ response.answer
  /\ stats.sessionBlocked = MaxBlocked
  /\ whitelist # {}

\* the rules that match a request, each one tried on its own: the entries of
\* AD_DOMAINS, the entries of BLOCK_PATTERNS and the video-host ad rule
rulesMatching(url, pageUrl) ==
  {<<"domain", i>> : i \in {j \in DOMAIN AD_DOMAINS : includes(toLowerCase(url), AD_DOMAINS[j])}}
    \cup {<<"pattern", i>> : i \in {j \in DOMAIN BLOCK_PATTERNS :
                                      testAt(BLOCK_PATTERNS, j, url, <<>>).matched}}
    \cup {<<"video", i>> : i \in {j \in {1} : isYouTubeRelatedOf(toLowerCase(url), pageUrl)}}

\* rulesMatching, computed once for each request of the model
RulesMatching ==
  [u \in RequestUrls |-> [p \in PageUrls \cup {""} |-> rulesMatching(u, p)]] @@ <<>>

\* the hostname of the page is in the whitelist
pageWhitelisted(pageUrl) == newURL(pageUrl).ok /\ newURL(pageUrl).hostname \in whitelist

Idle ==
  /\ credentialState.pendingCredential = NoCredential
  /\ "credential-prompt" \in dom.hidden

\* what the listener of credential-check-result has to do with the result `data`
checkResultApplied(data) ==
  IF ~data.shouldPrompt \/ data.status = "same"
  THEN /\ credentialState'.pendingCredential = NoCredential
       /\ dom'.hidden = dom.hidden
  ELSE IF data.status = "none"
  THEN dom'.hidden = dom.hidden \ {"credential-prompt"}
  ELSE data.status = "different" /\ dom'.hidden = dom.hidden \ {"credential-update-prompt"}

C14_FillOnlyAfterAuthentication ==
  [][/\ fills' # fills =>
          /\ performAutofillResumes
          /\ Head(toRenderer).data.auth = "success"
          /\ fills' = Append(fills, Fill(Head(toRenderer).data))
     /\ (performAutofillResumes /\ Head(toRenderer).data.auth # "success")
          => fills' = fills]_vars

\* one selection was filled after its authentication succeeded, a later selection
\* was cancelled at the authentication prompt and has filled nothing
C14_Witness ==
  /\ received.channel = "credential-autofill-with-auth"
  /\ received.data.auth = "cancelled"
  /\ Len(fills) = 1
  /\ fills[1].password \in {"p1", "p2"}
  /\ toRenderer = <<>>
  /\ authPending = <<>>

(***************************************************************************)
(* Properties of saveCredential's arguments.                               *)
(***************************************************************************)
\* C15: saveCredential called with an empty username or an empty secret is
\* rejected: it reports failure and leaves the credential store unchanged.
C15_AsStated ==
  [][\A url \in Urls, username \in Usernames \cup {""}, password \in Passwords \cup {""} :
       (saveCredential(url, username, password) /\ (username = "" \/ password = "")) =>
         /\ ~lastCall'.result
         /\ UNCHANGED <<credentialsCache, credentialsFile>>]_vars

(***************************************************************************)
(* Properties of the start of the credential manager.                      *)
(***************************************************************************)
\* credentials.enc cannot be turned into a credentials object by a run whose
\* secure storage is available or not as `os` says: its bytes were altered, it was
\* sealed under a key that .credential-key does not hold, it was sealed by the OS
\* storage that is not available, or its text is not JSON or is empty
Unreadable(file, keyFile, os) ==
  /\ file.exists
  /\ \/ file.data.mech = "damaged"
     \/ ~isJSON(file.data.text)
     \/ file.data.mech = "aes-256-gcm"
          /\ (~keyFile.exists \/ keyFile.data # file.data.key)
     \/ file.data.mech = "safeStorage" /\ ~os

\* C16: loading a corrupted or undecryptable credentials blob completes with an
\* empty in-memory store, and no exception reaches the caller of initialization,
\* whatever the files hold and whichever platform calls throw.
C16_CorruptedLoadLeavesEmptyStore ==
  [][_initialize =>
       /\ lastCall'.result
       /\ Unreadable(credentialsFile, encryptionKeyFile, useOSStorage')
            => credentialsCache' = <<>>]_vars

\* the program has started on a credentials file that held a credential and whose
\* bytes were altered afterwards: the store is empty and the start has completed
C16_Witness ==
  /\ lastCall.op = "_initialize"
  /\ lastCall.result
  /\ credentialsFile.exists
  /\ credentialsFile.data.mech = "damaged"
  /\ isJSON(credentialsFile.data.text)
  /\ JSONparse(credentialsFile.data.text) # <<>>
  /\ credentialsCache = <<>>

lists(e, origin, cred) ==
  /\ e.origin = origin
  /\ e.username = cred.username
  /\ e.createdAt = cred.createdAt
  /\ e.updatedAt = cred.updatedAt

listsOnceNewestFirst(list, cache) ==
  /\ \A i \in DOMAIN cache : \A j \in DOMAIN cache[i].value :
       Cardinality({k \in DOMAIN list : lists(list[k], cache[i].key, cache[i].value[j])}) = 1
  /\ \A k \in DOMAIN list :
       \E i \in DOMAIN cache : \E j \in DOMAIN cache[i].value :
         lists(list[k], cache[i].key, cache[i].value[j])
  /\ \A k \in 1..(Len(list) - 1) : list[k].updatedAt >= list[k + 1].updatedAt

\* C18: getAllCredentials returns every stored record exactly once, ordered by
\* updatedAt descending (most recently updated first).
C18_ListsEveryRecordOnceNewestFirst ==
  listsOnceNewestFirst(getAllCredentials, credentialsCache)

\* three records of two origins, of which the newest is not the first of the store
C18_Witness ==
  /\ Len(getAllCredentials) = 3
  /\ getAllCredentials[1].updatedAt > getAllCredentials[3].updatedAt
  /\ credentialsCache[1].value[1].updatedAt < getAllCredentials[1].updatedAt
  /\ getAllCredentials[1].origin # getAllCredentials[3].origin

\* the secrets the store holds
storedSecrets(cache) ==
  UNION {{cache[i].value[j].password : j \in DOMAIN cache[i].value} : i \in DOMAIN cache}

\* the string fields of the entries of getAllCredentials
listedStrings(list) ==
  UNION {{list[k].origin, list[k].username, list[k].displayName} : k \in DOMAIN list}

\* C19: no entry returned by getAllCredentials contains a secret, for any store
\* contents: an entry has the fields origin, username, displayName, createdAt and
\* updatedAt and no other, and none of its strings is a secret the store holds.
C19_ListingHoldsNoSecret ==
  /\ \A k \in DOMAIN getAllCredentials :
       DOMAIN getAllCredentials[k] =
         {"origin", "username", "displayName", "createdAt", "updatedAt"}
  /\ listedStrings(getAllCredentials) \cap storedSecrets(credentialsCache) = {}

\* two saved records with different secrets are listed
C19_Witness ==
  /\ lastCall.op = "saveCredential"
  /\ Len(getAllCredentials) = 2
  /\ storedSecrets(credentialsCache) = {"p1", "p2"}

(***************************************************************************)
(* Properties of the timestamps.                                           *)
(***************************************************************************)
\* C20: saveCredential on an existing (origin, username) keeps the record's
\* original createdAt and sets updatedAt to the time of the save.
C20_SaveKeepsCreatedAt ==
  [][\A url \in Urls, username \in Usernames, password \in Passwords :
       (saveCredential(url, username, password)
        /\ _getOrigin(url) # Null
        /\ recordsFor(credentialsCache, _getOrigin(url), username) # {}) =>
         \A old \in recordsFor(credentialsCache, _getOrigin(url), username) :
           \A new \in recordsFor(credentialsCache', _getOrigin(url), username) :
             /\ credentialsCache'[new[1]].value[new[2]].createdAt =
                  credentialsCache[old[1]].value[old[2]].createdAt
             /\ credentialsCache'[new[1]].value[new[2]].updatedAt = now]_vars

\* a record created at time 0 was saved again, with another secret, at time 1
C20_Witness ==
  /\ lastCall.op = "saveCredential"
  /\ lastCall.found = "different"
  /\ now = 1
  /\ \E r \in recordsFor(credentialsCache, _getOrigin(lastCall.url), lastCall.username) :
       /\ credentialsCache[r[1]].value[r[2]].createdAt = 0
       /\ credentialsCache[r[1]].value[r[2]].updatedAt = 1
       /\ credentialsCache[r[1]].value[r[2]].password = lastCall.password

(***************************************************************************)
(* Properties of the block counters.                                       *)
(***************************************************************************)
\* C21: sessionBlocked and totalBlocked never decrease across any sequence of
\* recordBlocked, toggle, addToWhitelist, removeFromWhitelist and request handling;
\* toggling the blocker off or on leaves every counter, the per-tab counters
\* included, unchanged.
C21_CountersNeverDecrease ==
  [][/\ stats'.sessionBlocked >= stats.sessionBlocked
     /\ stats'.totalBlocked >= stats.totalBlocked
     /\ toggle => stats' = stats]_vars

\* the blocker was switched off after it had blocked two requests
C21_Witness ==
  /\ response = IpcResponse
  /\ ~enabled
  /\ stats.sessionBlocked = 2
  /\ stats.totalBlocked = 2

\* the keys of blockedByTab
TabKeys == {"1", "2", "unknown"}

\* the stats after are the stats before with one more block of the tab tabId
countedOnce(before, after, tabId) ==
  /\ after.sessionBlocked = before.sessionBlocked + 1
  /\ after.totalBlocked = before.totalBlocked + 1
  /\ \A t \in TabKeys :
       getBlockedCount(after, t) = getBlockedCount(before, t) + (IF t = tabId THEN 1 ELSE 0)

holdsDomain(url, d) == includes(toLowerCase(url), toLowerCase(d))

\* C30: for every entry d of AD_DOMAINS and every request url that contains d,
\* compared case-insensitively, shouldBlock returns true when the blocker is
\* enabled and the page is not whitelisted.
C30_AsStated ==
  [][(/\ response'.kind = "shouldBlock"
      /\ shouldBlockCall(response'.request.url, response'.request.referrer)
      /\ enabled
      /\ ~pageWhitelisted(response'.request.referrer)
      /\ \E i \in DOMAIN AD_DOMAINS : holdsDomain(response'.request.url, AD_DOMAINS[i]))
       => response'.answer]_vars

\* the settings a restart would load are those of the blocker
settingsPersisted(storage, en, wl, st) ==
  loadSettings(storage) = [enabled |-> en, whitelist |-> wl, totalBlocked |-> st.totalBlocked]

\* C27: after every mutating operation on the block state (toggle, addToWhitelist,
\* removeFromWhitelist, recordBlocked) the persisted block settings equal the
\* enabled flag, the whitelist and totalBlocked in memory, so that a restart at any
\* point restores exactly the values of the moment before it.
C27_AsStated ==
  [][(\/ toggle
      \/ \E domain \in Domains : addToWhitelist(domain) \/ removeFromWhitelist(domain)
      \/ /\ response'.kind = "request"
         /\ response'.answer
         /\ onBeforeRequest(response'.request))
       => settingsPersisted(localStorage', enabled', whitelist', stats')]_vars

\* the keys of the per-tab counters of the open tabs
openTabKeys == {numberToString(id) : id \in tabs.open}

\* C28: when a tab closes, its per-tab blocked counter is discarded: after any
\* sequence of tab opens, blocked requests and tab closes, the per-tab counter map
\* has entries only for tabs that are still open.
C28_AsStated ==
  \A i \in DOMAIN stats.blockedByTab : stats.blockedByTab[i].key \in openTabKeys

(***************************************************************************)
(* Properties of the persisted files.                                      *)
(***************************************************************************)
\* the cache a start of the program loads from the files, on the platform os and
\* without a failing call
reloaded(file, os, keyFile, fresh) ==
  _loadCredentials(file, decrypted(file, os, keyFile, "ok", "ok", "ok", fresh).text, "ok").cache

C26_AsStated ==
  [][(/\ lastCall'.op = "saveCredential"
      /\ saveCredential(lastCall'.url, lastCall'.username, lastCall'.password)
      /\ opCount' = opCount + 1
      /\ ~lastCall'.wrote)
       => ~lastCall'.result]_vars

(***************************************************************************)
(* Properties of the autofill dropdown.                                    *)
(***************************************************************************)
\* the autofill flow as it is before the first report: the dropdown hidden, nothing
\* pending, no flag set
autofillIdle(state, window) ==
  /\ "autofill-dropdown" \in window.hidden
  /\ state.pendingAutofillPosition = Null
  /\ state.pendingAutofillWebview = 0
  /\ state.pendingAutofillUrl = Null
  /\ ~state.dropdownClicked

\* C24: after the re-authentication of an autofill attempt is cancelled or fails, the
\* controller is back in Idle: the dropdown is hidden, the pending autofill position,
\* webview and url are cleared, and no transient flag of the attempt (such as
\* dropdownClicked) remains set, so that later focus and blur reports are handled as
\* from the initial state.
C24_AsStated ==
  [][(performAutofillResumes /\ ~received'.data.success)
       => autofillIdle(credentialState', dom')]_vars

\* the pending autofill context of `state` is cleared
pendingCleared(state) ==
  /\ state.pendingAutofillPosition = Null
  /\ state.pendingAutofillWebview = 0
  /\ state.pendingAutofillUrl = Null

\* the step is the firing of the oldest blur timer
blurDelayElapses == dom.blurTimers # <<>> /\ dom'.blurTimers = Tail(dom.blurTimers)

\* the step is a click on an item of the dropdown that starts a fill
dropdownSelection ==
  /\ Len(toMain') = Len(toMain) + 1
  /\ toMain'[Len(toMain')].channel = "credential-autofill-with-auth"

\* C31: the pending autofill context (position, webview, url) is cleared after a blur
\* report whose grace delay elapses without a click on the dropdown, and after a
\* dropdown selection.
C31_AsStated ==
  [][/\ (blurDelayElapses /\ ~Head(dom.blurTimers)) => pendingCleared(credentialState')
     /\ dropdownSelection => pendingCleared(credentialState')]_vars

\* the request performAutofill sends for item `index` of the dropdown
selectionRequest(index) ==
  Message("credential-autofill-with-auth",
          [url |-> dom.autofillList[index].origin,
           username |-> dom.autofillList[index].username,
           webview |-> getActiveWebview])

\* C32: a click on a dropdown entry that follows the password field's blur is not
\* treated as abandonment: the click starts the autofill flow for the clicked
\* credential, and the blur's delayed hide cancels nothing of it.
C32_ClickAfterBlurStartsFill ==
  /\ [][\A index \in 1..2 :
          (dom.blurTimers # <<>> /\ autofillItemClick(index))
            => toMain' = Append(toMain, selectionRequest(index))]_vars
  /\ [][blurDelayElapses => UNCHANGED <<toMain, authPending, toRenderer, fills>>]_vars

\* a fill of bob's secret whose click fell into the delay of a blur
C32_Witness ==
  /\ \E i \in DOMAIN dom.blurTimers : dom.blurTimers[i]
  /\ \E i \in DOMAIN fills : fills[i].username = "bob" /\ fills[i].password = "p2"

\* the secret is stored for `username` under the origin of the page `webview` shows
storedForPageOf(webview, username, password) ==
  \E i \in DOMAIN getCredentials(getURL(webview)) :
    /\ getCredentials(getURL(webview))[i].username = username
    /\ getCredentials(getURL(webview))[i].password = password

\* C34: a secret is filled only into a page whose origin equals the origin under
\* which that secret is stored, in every interleaving of focus reports,
\* login-form-detected reports, credential-list responses, tab switches and
\* authentication results across several tabs.
C34_AsStated ==
  [][fills' # fills =>
       storedForPageOf(fills'[Len(fills')].webview, fills'[Len(fills')].username,
                       fills'[Len(fills')].password)]_vars

(***************************************************************************)
(* Properties of the prompts' timers.                                      *)
(***************************************************************************)
\* both prompts are hidden, no credential is pending and no timer runs
promptsIdle ==
  /\ {"credential-prompt", "credential-update-prompt"} \subseteq dom.hidden
  /\ credentialState.pendingCredential = NoCredential
  /\ credentialState.promptTimeout = "none"

\* C23: every save prompt or update prompt that becomes visible is eventually hidden
\* with the controller back in Idle and nothing saved, if the user takes no action on
\* it, in every execution, whatever further submissions and check results arrive
\* while it is visible, assuming timers fire.
C23_AsStated ==
  \A element \in {"credential-prompt", "credential-update-prompt"} :
    (element \notin dom.hidden)
      ~> (element \in dom.hidden /\ promptsIdle /\ credentialsCache = SavedCredentials)

\* C33: at most one of the save prompt and the update prompt is visible at any time,
\* after any sequence of submissions, check results, button clicks and timer
\* expirations.
C33_AsStated ==
  "credential-prompt" \in dom.hidden \/ "credential-update-prompt" \in dom.hidden

\* C36: whenever a save prompt or an update prompt is visible, the pending credential
\* is set (non-null), so the prompt's Save, Never or Update button always acts on a
\* credential and hides the prompt.
C36_AsStated ==
  ({"credential-prompt", "credential-update-prompt"} \ dom.hidden # {})
    => credentialState.pendingCredential # NoCredential

\* C35: when several credential submissions are in flight, each check result is
\* applied to the submission that requested it: the credential sent by Save or
\* Update from a prompt is the one whose check result caused that prompt to be shown.
C35_AsStated ==
  [][/\ (credentialCheckResult /\ credentialState.pendingCredential # NoCredential)
          => Head(toRenderer).data.checked = credentialState.pendingCredential
     /\ (credentialSaveBtn /\ credentialState.pendingCredential # NoCredential)
          => toMain'[Len(toMain')].data = dom.shownFor["credential-prompt"]
     /\ (credentialUpdateBtn /\ credentialState.pendingCredential # NoCredential)
          => toMain'[Len(toMain')].data = dom.shownFor["credential-update-prompt"]]_vars

(***************************************************************************)
(* Properties of the tab list.                                             *)
(***************************************************************************)
\* the ids of the tab list are pairwise distinct and none is greater than tabCounter
distinctTabIds(t) ==
  /\ \A i, j \in DOMAIN t.list : t.list[i] = t.list[j] => i = j
  /\ \A i \in DOMAIN t.list : t.list[i] <= t.created

\* C40: after any sequence of createTab, switchTab (to an open tab) and closeTab,
\* whenever the tab list is non-empty activeTabId is the id of exactly one open tab;
\* tab ids are pairwise distinct and never reused (a new tab gets an id greater than
\* every id given before).
C40_ActiveTabIsOneOpenTab ==
  /\ [](distinctTabIds(tabs)
        /\ (tabs.list # <<>> =>
              Cardinality({i \in DOMAIN tabs.list : tabs.list[i] = tabs.active}) = 1))
  /\ [][Len(tabs'.list) > Len(tabs.list) =>
          /\ tabs'.list = Append(tabs.list, tabs.created + 1)
          /\ tabs'.created = tabs.created + 1]_vars

\* the third tab was created and closed while it was the active one or after a
\* switch, the first tab was closed, and the second is the active tab
C40_Witness ==
  /\ tabs.created = 3
  /\ tabs.list = <<2>>
  /\ tabs.active = 2

(***************************************************************************)
(* Properties of the password protection.                                  *)
(***************************************************************************)
RECURSIVE failuresSince(_)
\* the failed verifications of the calls `history` since the last successful
\* verification, successful password change or reset
failuresSince(history) ==
  IF history = <<>> \/ history[Len(history)] \in {"verified", "changed", "reset"} THEN 0
  ELSE (IF history[Len(history)] = "failed" THEN 1 ELSE 0)
       + failuresSince(SubSeq(history, 1, Len(history) - 1))

\* the step is a call of verifyPassword
verifies ==
  /\ lock'.history # lock.history
  /\ lock'.history[Len(lock'.history)] \in {"verified", "failed"}

C38_AsStated == lock.config.failedAttempts \in 0..MAX_ATTEMPTS

\* C39: changePassword with an incorrect current password, or with a new password
\* shorter than 4 characters, returns failure and leaves the stored password hash and
\* failedAttempts unchanged.
C39_RejectedChangeKeepsConfig ==
  [][\A currentPassword, newPassword \in LockPasswords :
       (/\ changePassword(currentPassword, newPassword)
        /\ \/ hashPassword(currentPassword) # lock.config.passwordHash
           \/ Len(newPassword) < 4)
         => /\ ~lock'.result.success
            /\ lock'.config.passwordHash = lock.config.passwordHash
            /\ lock'.config.failedAttempts = lock.config.failedAttempts
            /\ lock'.file = lock.file]_vars

\* after two wrong passwords and a change to "abcd", a change to a password of three
\* characters with the right current password has been rejected
C39_Witness ==
  /\ Len(lock.history) = 5
  /\ lock.history[5] = "rejected"
  /\ lock.history[3] = "changed"
  /\ lock.config.passwordHash = hashPassword("abcd")
  /\ lock.config.failedAttempts = 1
  /\ lock.result = [success |-> FALSE, error |-> "New password must be at least 4 characters"]

(***************************************************************************)
(* Properties of the page's reports.                                       *)
(***************************************************************************)
\* C29: a single logical submission of a login form is reported to the host at most
\* once within the deduplication window (250 ms) for the same field pair, even when
\* it triggers more than one of the attached listeners (the form's submit event, the
\* Enter key on the password field, a click on a submit control).
C29_AsStated ==
  \A i, j \in DOMAIN page.log :
    (/\ i < j
     /\ page.log[i].submission = page.log[j].submission
     /\ page.log[j].after - page.log[i].after < 250) => FALSE

=============================================================================
